---- MODULE Spec2Model ----
(***************************************************************************)
(* Issue Test Orchestrator (test_issues.py), the project-issues fetch it   *)
(* calls (project_issues.py), the guarded fetch of the GitHub API client   *)
(* (bernard/github_interactions.py) and the QA Agent Runner's label update *)
(* (run_bernard_qa_agent.py), as a state machine over the GitHub state     *)
(* (issue labels, issue comments) they share.                              *)
(*                                                                         *)
(* Every HTTP request is one step, so a GET and the PATCH that follows it  *)
(* can be separated by the requests of other processes.  Orchestrator      *)
(* invocations and Runner child processes are operating-system processes   *)
(* and interleave freely; the sessions of one invocation are coroutines of *)
(* one event loop and only switch at an await.                             *)
(*                                                                         *)
(* Label lists are modelled as sets (GitHub keeps one label per name; the  *)
(* code only tests membership, filters and appends).  Text is modelled as  *)
(* a sequence of tokens, a substring test as a contiguous-subsequence test.*)
(***************************************************************************)
EXTENDS Integers, Sequences, FiniteSets, TLC

\* ------------------------------------------------------------------------
\* Bounds and program constants
\* ------------------------------------------------------------------------

\* number of Orchestrator invocations whose poll cycles may overlap
NumOrch == 2

\* test_issues.py:252  max_concurrent_issues = 3
max_concurrent_issues == 3

\* test_issues.py:245  asyncio.Semaphore(3)
SemaphoreSize == 3

Orchs == 1..NumOrch

\* the client of bernard.github_interactions.get_project_issues
Lib == 0

Procs == {Lib} \cup Orchs

\* issue numbers known to the repository
Issues == 1..10

\* Python None / a JSON null; no issue number, node id or cursor is 0
None == 0

\* ------------------------------------------------------------------------
\* Text helpers
\* ------------------------------------------------------------------------

\* str.lower() on the label names that occur on the board
Lower(l) ==
    CASE l = "AI-Tested" -> "ai-tested"
      [] l = "AI-TESTED" -> "ai-tested"
      [] l = "Testing-In-Progress" -> "testing-in-progress"
      [] l = "Needs-Test" -> "needs-test"
      [] l = "Changes-Requested" -> "changes-requested"
      [] OTHER -> l

\* f"@{bot_username} Testing Instructions:" as tokens
Prefix == <<"@bot", " ", "Testing Instructions:">>

\* p occurs in body at position i
OccursAt(body, p, i) ==
    /\ i + Len(p) - 1 <= Len(body)
    /\ \A j \in 1..Len(p) : body[i + j - 1] = p[j]

\* Python `p in body`
Contains(body, p) == \E i \in 1..Len(body) : OccursAt(body, p, i)

\* body.split(p, 1)[1]: the text after the first occurrence of p
AfterFirst(body, p) ==
    LET i == CHOOSE k \in 1..Len(body) :
                 /\ OccursAt(body, p, k)
                 /\ \A m \in 1..(k - 1) : ~OccursAt(body, p, m)
    IN  SubSeq(body, i + Len(p), Len(body))

\* the whitespace tokens: what str.strip() drops and what \s matches
Whitespace == {" ", "\n"}

\* str.strip(): drop leading and trailing whitespace tokens
RECURSIVE Strip(_)
Strip(s) ==
    IF s = <<>> THEN s
    ELSE IF Head(s) \in Whitespace THEN Strip(Tail(s))
    ELSE IF s[Len(s)] \in Whitespace THEN Strip(SubSeq(s, 1, Len(s) - 1))
    ELSE s

\* test_issues.py get_testing_instructions: the task of the first comment
\* holding the prefix, None (here the empty text, equally falsy) otherwise
get_testing_instructions(comments) ==
    IF \E i \in 1..Len(comments) : Contains(comments[i].body, Prefix)
    THEN LET i == CHOOSE k \in 1..Len(comments) :
                     /\ Contains(comments[k].body, Prefix)
                     /\ \A m \in 1..(k - 1) : ~Contains(comments[m].body, Prefix)
         IN  Strip(AfterFirst(comments[i].body, Prefix))
    ELSE <<>>

\* variant of HasLabelLower without the lower(): a case-sensitive test
HasLabelLowerMut(labels, name) == name \in labels

\* `name in [label.lower() for label in issue.get('labels', [])]`
HasLabelLower(labels, name) == \E l \in labels : Lower(l) = name

\* ------------------------------------------------------------------------
\* The repository's issues and the project board (GitHub side)
\* ------------------------------------------------------------------------

\* the configured COLUMN_ID (project_issues.py:18)
COLUMN_ID == "col-ready"

InstructionBody == <<"@bot", " ", "Testing Instructions:", " ", "txt">>

InstructionComment ==
    [author |-> "dev", body |-> InstructionBody, createdAt |-> 1]

PlainComment == [author |-> "dev", body |-> <<"txt">>, createdAt |-> 1]

MentionComment ==
    [author |-> "dev", body |-> <<"@bot", " ", "txt">>, createdAt |-> 2]

\* issue 3 carries instructions in its body only, never in a comment
IssueComments(n) ==
    IF n = 3 THEN <<PlainComment, MentionComment>>
    ELSE <<PlainComment, InstructionComment>>

IssueBody(n) == IF n = 3 THEN InstructionBody ELSE <<"txt">>

\* issue 6 comes back from the fetch without a node id
IssueNodeId(n) == IF n = 6 THEN None ELSE n

IssueState(n) == IF n = 7 THEN "CLOSED" ELSE "OPEN"

\* labels the issues carry before any invocation
InitLabels ==
    [n \in Issues |->
        CASE n = 1 -> {"needs-test", "changes-requested", "bug"}
          [] n = 2 -> {"AI-Tested", "needs-test"}
          [] n = 5 -> {"Testing-In-Progress"}
          [] n = 9 -> {"bug"}
          [] OTHER -> {}]

Item(n, opts) == [content |-> n, optionIds |-> opts]

\* a board of three pages: eligible issues 1, 4, 9, 10, issue 1 returned a
\* second time on page 2, and one entry for every way of being skipped
CapBoard ==
    << [nodes |-> << Item(1, {COLUMN_ID}), Item(None, {COLUMN_ID}),
                     Item(2, {COLUMN_ID}), Item(3, {"col-other", COLUMN_ID}),
                     Item(7, {COLUMN_ID}) >>,
        hasNextPage |-> TRUE, endCursor |-> 1],
       [nodes |-> << Item(4, {COLUMN_ID}), Item(1, {COLUMN_ID}),
                     Item(5, {COLUMN_ID}), Item(8, {"col-other"}) >>,
        hasNextPage |-> TRUE, endCursor |-> 2],
       [nodes |-> << Item(6, {COLUMN_ID}), Item(9, {COLUMN_ID}),
                     Item(10, {COLUMN_ID}) >>,
        hasNextPage |-> FALSE, endCursor |-> 3] >>

\* a board of two pages with one eligible issue
RaceBoard ==
    << [nodes |-> << Item(2, {COLUMN_ID}) >>,
        hasNextPage |-> TRUE, endCursor |-> 1],
       [nodes |-> << Item(1, {COLUMN_ID}) >>,
        hasNextPage |-> FALSE, endCursor |-> 2] >>

\* what one GraphQL request can come back with: a well-formed page, an HTTP
\* error status, a body lacking an expected key, a null data/node object
Responses == {"ok", "http_error", "missing_key", "null_object"}

\* ------------------------------------------------------------------------
\* State
\* ------------------------------------------------------------------------

VARIABLES
    board,      \* the project board, as pages of items
    labels,     \* GitHub: issue number -> label set
    posted,     \* GitHub: comments posted by Orchestrators
    opc,        \* process -> position in main() / get_project_issues()
    after,      \* process -> variables["after"] of the fetch
    issues,     \* process -> the list `issues` (fetch, then main)
    idx,        \* orchestrator -> position of the for loop in `issues`
    got,        \* orchestrator -> labels read by add_testing_in_progress_label
    tasks,      \* orchestrator -> agent_tasks, with each session's progress
    sem,        \* orchestrator -> free permits of concurrency_limiter
    log,        \* orchestrator -> outcome of each loop iteration so far
    reqs,       \* process -> the requests of its fetch: cursor sent, answer
    fn,         \* the function being called outside a poll cycle, or "none"
    arg,        \* its arguments
    res,        \* what it returned or raised
    fpc,        \* "off", "call" (called, not returned) or "ret" (returned)
    fs,         \* the context directory: whether it exists, and its files
    run,        \* video process -> its position and local variables
    rec,        \* the shared recordings directory: its .mp4 files
    rel         \* GitHub: the releases of the video tag and their assets

\* the variables of a poll cycle
ovars == <<board, labels, posted, opc, after, issues, idx, got, tasks, sem, log,
           reqs>>

\* the variables of a function call and of the context directory
fvars == <<fn, arg, res, fpc, fs>>

\* the variables of the video pipeline
rvars == <<run, rec, rel>>

vars == <<ovars, fvars, rvars>>

\* ------------------------------------------------------------------------
\* Fetch project issues
\* ------------------------------------------------------------------------

\* the dictionary appended for an item (project_issues.py:108-123)
Snapshot(n) ==
    [body |-> IssueBody(n), number |-> n, node_id |-> IssueNodeId(n),
     labels |-> labels[n], comments |-> IssueComments(n)]

\* variant of ItemKept without the test of the issue state
ItemKeptMut(item) ==
    /\ item.content # None
    /\ \E opt \in item.optionIds : opt = COLUMN_ID

\* `if not content or content.get("state") != "OPEN": continue` and the
\* column test (project_issues.py:97-107)
ItemKept(item) ==
    /\ item.content # None
    /\ IssueState(item.content) = "OPEN"
    /\ \E opt \in item.optionIds : opt = COLUMN_ID

\* the issues one page adds, in item order (project_issues.py:96-123)
RECURSIVE PageIssues(_)
PageIssues(nodes) ==
    IF nodes = <<>> THEN <<>>
    ELSE IF ItemKept(Head(nodes))
         THEN <<Snapshot(Head(nodes).content)>> \o PageIssues(Tail(nodes))
         ELSE PageIssues(Tail(nodes))

\* the page the server answers for a cursor
PageFor(cursor) == IF cursor = None THEN board[1] ELSE board[cursor + 1]

\* one well-formed page processed: collect, then follow the cursor or stop
PageDone(p, nextpc) ==
    LET page == PageFor(after[p]) IN
    /\ issues' = [issues EXCEPT ![p] = @ \o PageIssues(page.nodes)]
    /\ IF page.hasNextPage
       THEN /\ after' = [after EXCEPT ![p] = page.endCursor]
            /\ opc' = opc
       ELSE /\ after' = after
            /\ opc' = [opc EXCEPT ![p] = nextpc]

\* project_issues.get_project_issues, one request: raise_for_status and the
\* subscripting of the response are unguarded, so any failure leaves main()
FetchPage(o) ==
    /\ opc[o] = "fetch"
    /\ \E resp \in Responses :
         /\ reqs' = [reqs EXCEPT ![o] = Append(@, [after |-> after[o], resp |-> resp])]
         /\ IF resp = "ok"
            THEN PageDone(o, "loop")
            ELSE /\ opc' = [opc EXCEPT ![o] = "raised"]
                 /\ UNCHANGED <<after, issues>>
    /\ UNCHANGED <<fvars, rvars, board, labels, posted, idx, got, tasks, sem, log>>

\* which failures bernard.github_interactions.get_project_issues catches:
\* HTTPError and KeyError; subscripting a null object is a TypeError
Caught(resp) == resp \in {"http_error", "missing_key"}

\* bernard.github_interactions.get_project_issues, one request
LibFetchPage ==
    /\ opc[Lib] = "fetch"
    /\ \E resp \in Responses :
         /\ reqs' = [reqs EXCEPT ![Lib] = Append(@, [after |-> after[Lib], resp |-> resp])]
         /\ IF resp = "ok"
            THEN PageDone(Lib, "returned")
            ELSE /\ opc' = [opc EXCEPT
                              ![Lib] = IF Caught(resp) THEN "returned" ELSE "raised"]
                 /\ UNCHANGED <<after, issues>>
    /\ UNCHANGED <<fvars, rvars, board, labels, posted, idx, got, tasks, sem, log>>

\* ------------------------------------------------------------------------
\* Orchestrator main(): the eligibility loop
\* ------------------------------------------------------------------------

\* processed_count; it is incremented exactly when agent_tasks grows
processed_count(o) == Len(tasks[o])

\* variant of CapReached without the break
CapReachedMut(o) == FALSE

\* `if processed_count >= max_concurrent_issues: break`
CapReached(o) == processed_count(o) >= max_concurrent_issues

\* variant of SkipReason without the node id test
SkipReasonMut(issue) ==
    IF HasLabelLower(issue.labels, "ai-tested") THEN "ai-tested"
    ELSE IF HasLabelLower(issue.labels, "testing-in-progress") THEN "in-progress"
    ELSE IF get_testing_instructions(issue.comments) = <<>> THEN "no-instructions"
    ELSE "none"

\* the first failing eligibility condition of an entry, "none" if it passes
\* (test_issues.py:259-278)
SkipReason(issue) ==
    IF HasLabelLower(issue.labels, "ai-tested") THEN "ai-tested"
    ELSE IF HasLabelLower(issue.labels, "testing-in-progress") THEN "in-progress"
    ELSE IF get_testing_instructions(issue.comments) = <<>> THEN "no-instructions"
    ELSE IF issue.node_id = None THEN "no-node-id"
    ELSE "none"

\* the session coroutine appended to agent_tasks for entry e, not yet started
NewTask(e, issue) ==
    [entry |-> e, number |-> issue.number,
     desc |-> get_testing_instructions(issue.comments),
     labels_arg |-> issue.labels,
     st |-> "created", r |-> "none", rgot |-> {}, url |-> FALSE,
     updated |-> FALSE]

Logged(o, what) == log' = [log EXCEPT ![o] = Append(@, [entry |-> idx[o], what |-> what])]

\* `agent_tasks.append(...)`, `processed_count += 1` and the next iteration
Launch(o, what) ==
    /\ tasks' = [tasks EXCEPT ![o] = Append(@, NewTask(idx[o], issues[o][idx[o]]))]
    /\ Logged(o, what)
    /\ idx' = [idx EXCEPT ![o] = @ + 1]
    /\ opc' = [opc EXCEPT ![o] = "loop"]

\* variant of LockFailed without the continue: the session is created anyway
LockFailedMut(o) == Launch(o, "lock-failed")

\* `except Exception: ... continue` around add_testing_in_progress_label
LockFailed(o) ==
    /\ Logged(o, "lock-failed")
    /\ idx' = [idx EXCEPT ![o] = @ + 1]
    /\ opc' = [opc EXCEPT ![o] = "loop"]
    /\ tasks' = tasks

\* the for loop ends (list exhausted or cap reached); gather only if there
\* is a session to await
LoopExit(o) ==
    /\ opc[o] = "loop"
    /\ idx[o] > Len(issues[o]) \/ CapReached(o)
    /\ opc' = [opc EXCEPT ![o] = IF tasks[o] # <<>> THEN "gather" ELSE "done"]
    /\ UNCHANGED <<fvars, rvars, reqs, board, labels, posted, after, issues, idx, got, tasks, sem, log>>

\* an entry failing an eligibility filter: `[SKIP] ...; continue`
LoopSkip(o) ==
    /\ opc[o] = "loop"
    /\ idx[o] <= Len(issues[o])
    /\ ~CapReached(o)
    /\ SkipReason(issues[o][idx[o]]) # "none"
    /\ Logged(o, SkipReason(issues[o][idx[o]]))
    /\ idx' = [idx EXCEPT ![o] = @ + 1]
    /\ UNCHANGED <<fvars, rvars, reqs, board, labels, posted, opc, after, issues, got, tasks, sem>>

\* add_testing_in_progress_label, the GET: on an error the issue is skipped;
\* if the label is already there the function returns without a PATCH
LockGet(o) ==
    /\ opc[o] = "loop"
    /\ idx[o] <= Len(issues[o])
    /\ ~CapReached(o)
    /\ SkipReason(issues[o][idx[o]]) = "none"
    /\ LET n == issues[o][idx[o]].number IN
       \E ok \in BOOLEAN :
         IF ~ok THEN LockFailed(o) /\ got' = got
         ELSE IF "testing-in-progress" \in labels[n]
              THEN Launch(o, "label-present") /\ got' = got
              ELSE /\ got' = [got EXCEPT ![o] = labels[n]]
                   /\ opc' = [opc EXCEPT ![o] = "lock_patch"]
                   /\ UNCHANGED <<idx, tasks, log>>
    /\ UNCHANGED <<fvars, rvars, reqs, board, labels, posted, after, issues, sem>>

\* add_testing_in_progress_label, the PATCH of the labels read plus the lock
LockPatch(o) ==
    /\ opc[o] = "lock_patch"
    /\ LET n == issues[o][idx[o]].number IN
       \E ok \in BOOLEAN :
         IF ok
         THEN /\ labels' = [labels EXCEPT ![n] = got[o] \cup {"testing-in-progress"}]
              /\ Launch(o, "label-added")
         ELSE /\ labels' = labels
              /\ LockFailed(o)
    /\ UNCHANGED <<fvars, rvars, reqs, board, posted, after, issues, got, sem>>

\* ------------------------------------------------------------------------
\* Orchestrator main(): the sessions awaited by asyncio.gather
\* ------------------------------------------------------------------------

Sessions(o) == 1..Len(tasks[o])

SetTask(o, k, t) == tasks' = [tasks EXCEPT ![o][k] = t]

\* comment_on_issue is a blocking call: while a session is inside it the
\* event loop of that invocation runs no other session
LoopFree(o) == \A k \in Sessions(o) : tasks[o][k].st # "posting"

\* variant of CommunicateReturned that does not wait for the child's exit
CommunicateReturnedMut(o, k) == tasks[o][k].r # "none"

\* `stdout, _ = await process.communicate()` has returned: the child exited
CommunicateReturned(o, k) == tasks[o][k].r \in {"exited", "killed"}

\* run_with_concurrency_limit up to the await on the child: acquire a permit
\* of concurrency_limiter and spawn run_bernard_qa_agent.py; gather starts
\* the sessions in list order
StartSession(o, k) ==
    /\ opc[o] = "gather"
    /\ tasks[o][k].st = "created"
    /\ \A j \in 1..(k - 1) : tasks[o][j].st # "created"
    /\ LoopFree(o)
    /\ sem[o] > 0
    /\ sem' = [sem EXCEPT ![o] = @ - 1]
    /\ SetTask(o, k, [tasks[o][k] EXCEPT !.st = "running", !.r = "agent"])
    /\ UNCHANGED <<fvars, rvars, reqs, board, labels, posted, opc, after, issues, idx, got, log>>

\* run_agent_for_issue after communicate(): the comment request is sent
CommentSend(o, k) ==
    /\ opc[o] = "gather"
    /\ tasks[o][k].st = "running"
    /\ CommunicateReturned(o, k)
    /\ LoopFree(o)
    /\ SetTask(o, k, [tasks[o][k] EXCEPT !.st = "posting"])
    /\ UNCHANGED <<fvars, rvars, reqs, board, labels, posted, opc, after, issues, idx, got, sem, log>>

\* the sessions of an invocation after one of them raised: gather hands the
\* exception to main(), asyncio.run cancels every session still pending
Cancelled(o, k) ==
    [j \in Sessions(o) |->
        IF j = k THEN [tasks[o][j] EXCEPT !.st = "failed"]
        ELSE IF tasks[o][j].st \in {"created", "running"}
             THEN [tasks[o][j] EXCEPT !.st = "cancelled"]
             ELSE tasks[o][j]]

\* comment_on_issue answers: the comment is on the issue and the session
\* ends, releasing its permit; or raise_for_status raises out of the session
CommentDone(o, k) ==
    /\ tasks[o][k].st = "posting"
    /\ \E ok \in BOOLEAN :
         IF ok
         THEN /\ posted' = posted \cup {[number |-> tasks[o][k].number, by |-> o,
                                         session |-> k, video |-> tasks[o][k].url]}
              /\ SetTask(o, k, [tasks[o][k] EXCEPT !.st = "done"])
              /\ sem' = [sem EXCEPT ![o] = @ + 1]
              /\ opc' = opc
         ELSE /\ posted' = posted
              /\ tasks' = [tasks EXCEPT ![o] = Cancelled(o, k)]
              /\ sem' = [sem EXCEPT ![o] = SemaphoreSize]
              /\ opc' = [opc EXCEPT ![o] = "crashed"]
    /\ UNCHANGED <<fvars, rvars, reqs, board, labels, after, issues, idx, got, log>>

\* `await asyncio.gather(*agent_tasks)` returns: every session has ended
GatherDone(o) ==
    /\ opc[o] = "gather"
    /\ \A k \in Sessions(o) : tasks[o][k].st = "done"
    /\ opc' = [opc EXCEPT ![o] = "done"]
    /\ UNCHANGED <<fvars, rvars, reqs, board, labels, posted, after, issues, idx, got, tasks, sem, log>>

\* a child whose session was cancelled may be killed when the event loop
\* closes its transport, or may run on
KillOrphan(o, k) ==
    /\ tasks[o][k].st = "cancelled"
    /\ tasks[o][k].r \in {"agent", "video", "upd_get", "upd_patch"}
    /\ SetTask(o, k, [tasks[o][k] EXCEPT !.r = "killed"])
    /\ UNCHANGED <<fvars, rvars, reqs, board, labels, posted, opc, after, issues, idx, got, sem, log>>

\* ------------------------------------------------------------------------
\* QA Agent Runner child process of session k of invocation o
\* ------------------------------------------------------------------------

\* variant of update_labels that forgets to add ai-tested
update_labelsNoAdd(current) ==
    current \ {"testing-in-progress", "changes-requested"}

\* variant of update_labels that also removes needs-test
update_labelsNeedsTest(current) ==
    (current \ {"testing-in-progress", "changes-requested", "needs-test"})
        \cup {"ai-tested"}

\* the label list update_labels PATCHes (run_bernard_qa_agent.py:129-132)
update_labels(current) ==
    (current \ {"testing-in-progress", "changes-requested"}) \cup {"ai-tested"}

\* main() up to the return of agent.run (an exception ends the process)
RunnerAgent(o, k) ==
    /\ tasks[o][k].r = "agent"
    /\ \E ok \in BOOLEAN :
         SetTask(o, k, [tasks[o][k] EXCEPT !.r = IF ok THEN "video" ELSE "exited"])
    /\ UNCHANGED <<fvars, rvars, reqs, board, labels, posted, opc, after, issues, idx, got, sem, log>>

\* main() from the recorder to the VIDEO_URL:: line: either a video URL is
\* obtained and printed, and the label update follows because the
\* Orchestrator always passes an issue number, or the process ends
RunnerVideo(o, k) ==
    /\ tasks[o][k].r = "video"
    /\ \E u \in BOOLEAN :
         SetTask(o, k, [tasks[o][k] EXCEPT !.url = u,
                                           !.r = IF u THEN "upd_get" ELSE "exited"])
    /\ UNCHANGED <<fvars, rvars, reqs, board, labels, posted, opc, after, issues, idx, got, sem, log>>

\* update_labels, the GET (raise_for_status ends the process)
RunnerGet(o, k) ==
    /\ tasks[o][k].r = "upd_get"
    /\ \E ok \in BOOLEAN :
         SetTask(o, k, IF ok
                       THEN [tasks[o][k] EXCEPT !.rgot = labels[tasks[o][k].number],
                                                !.r = "upd_patch"]
                       ELSE [tasks[o][k] EXCEPT !.r = "exited"])
    /\ UNCHANGED <<fvars, rvars, reqs, board, labels, posted, opc, after, issues, idx, got, sem, log>>

\* variant of RunnerPatch in two requests: the first one PATCHes the list
\* without the removed labels, ai-tested being left to a second request
RunnerPatchMut(o, k) ==
    /\ tasks[o][k].r = "upd_patch"
    /\ labels' = [labels EXCEPT
                    ![tasks[o][k].number] =
                        tasks[o][k].rgot \ {"testing-in-progress", "changes-requested"}]
    /\ SetTask(o, k, [tasks[o][k] EXCEPT !.r = "upd_add"])
    /\ UNCHANGED <<fvars, rvars, reqs, board, posted, opc, after, issues, idx, got, sem, log>>

\* update_labels, the PATCH, then the process ends
RunnerPatch(o, k) ==
    /\ tasks[o][k].r = "upd_patch"
    /\ \E ok \in BOOLEAN :
         IF ok
         THEN /\ labels' = [labels EXCEPT
                              ![tasks[o][k].number] = update_labels(tasks[o][k].rgot)]
              /\ SetTask(o, k, [tasks[o][k] EXCEPT !.updated = TRUE, !.r = "exited"])
         ELSE /\ labels' = labels
              /\ SetTask(o, k, [tasks[o][k] EXCEPT !.r = "exited"])
    /\ UNCHANGED <<fvars, rvars, reqs, board, posted, opc, after, issues, idx, got, sem, log>>

\* ------------------------------------------------------------------------
\* The tagged-comment selector
\* ------------------------------------------------------------------------

\* longest comment list a call is made with
MaxComments == 4

\* BOT_USERNAME (test_issues.py), DEFAULT_BOT_USERNAME (github_interactions)
BOT_USERNAME == "bot"

\* f"@{bot_username}" as tokens
Mention == <<"@bot">>

\* a token that tells the body of the i-th comment from every other body
Tok == <<"c1", "c2", "c3", "c4", "c5", "c6">>

\* the i-th comment of an issue: who wrote it, whether it mentions the bot
CommentAt(i, a, m, t) ==
    [author |-> a,
     body |-> IF m THEN <<"@bot", " ", Tok[i]>> ELSE <<Tok[i]>>,
     createdAt |-> t]

\* creation times of n comments as GitHub returns them, oldest first: the
\* first at time 1, every other at the time of the one before it or one later
SortedTimes(n) ==
    {t \in [1..n -> 1..n] :
        /\ n > 0 => t[1] = 1
        /\ \A i \in 1..(n - 1) : t[i + 1] \in {t[i], t[i] + 1}}

\* the comment lists `issue["comments"]` a fetch can deliver
CommentLists ==
    UNION { { [i \in 1..n |-> CommentAt(i, a[i], m[i], t[i])] :
                a \in [1..n -> {BOT_USERNAME, "dev"}],
                m \in [1..n -> BOOLEAN],
                t \in SortedTimes(n) } : n \in 0..MaxComments }

\* a body that was found, and the None of a search that found nothing
Found(body) == [found |-> TRUE, body |-> body]

NotFound == [found |-> FALSE, body |-> <<>>]

\* variant of the selector with `>=` in place of `>`
get_tagged_comment_after_last_testMut(comments) ==
    LET n == Len(comments)
        byBot == {i \in 1..n : comments[i].author = BOT_USERNAME}
        last == IF byBot = {} THEN 0
                ELSE CHOOSE i \in byBot : \A j \in byBot : j <= i
        hit == {i \in 1..n :
                  /\ Contains(comments[i].body, Mention)
                  /\ \/ last = 0
                     \/ comments[i].createdAt >= comments[last].createdAt}
    IN  IF hit = {} THEN NotFound
        ELSE Found(comments[CHOOSE i \in hit : \A j \in hit : i <= j].body)

\* get_tagged_comment_after_last_test: `last` is the comment the reversed
\* scan stops at, `hit` the comments the forward scan would return at
get_tagged_comment_after_last_test(comments) ==
    LET n == Len(comments)
        byBot == {i \in 1..n : comments[i].author = BOT_USERNAME}
        last == IF byBot = {} THEN 0
                ELSE CHOOSE i \in byBot : \A j \in byBot : j <= i
        hit == {i \in 1..n :
                  /\ Contains(comments[i].body, Mention)
                  /\ \/ last = 0
                     \/ comments[i].createdAt > comments[last].createdAt}
    IN  IF hit = {} THEN NotFound
        ELSE Found(comments[CHOOSE i \in hit : \A j \in hit : i <= j].body)

\* a call of the selector returns
CallTagged ==
    /\ fn = "tagged"
    /\ fpc = "call"
    /\ res' = get_tagged_comment_after_last_test(arg)
    /\ fpc' = "ret"
    /\ UNCHANGED <<ovars, rvars, fn, arg, fs>>

\* ------------------------------------------------------------------------
\* The context directory
\* ------------------------------------------------------------------------

\* file names (without ".txt") that occur in the context directory
FileNames ==
    { <<"billing">>, <<"1094", "/", "1095">>, <<"air", "-", "employee">> }

\* a file that exists, with its content, and a file that does not
File(content) == [exists |-> TRUE, content |-> content]

NoFile == [exists |-> FALSE, content |-> <<>>]

\* neither the directory nor any file in it exists
NoDirectory == [dir |-> FALSE, files |-> [f \in FileNames |-> NoFile]]

\* ------------------------------------------------------------------------
\* Context updater: the "REMEMBER NEXT TIME" annotation
\* ------------------------------------------------------------------------

\* longest feature name and longest information text of an annotation
MaxFeatureLen == 2

MaxInfoLen == 3

\* all sequences over S of length at most n
SeqsUpTo(S, n) == UNION {[1..k -> S] : k \in 0..n}

\* the spellings re.IGNORECASE accepts for "REMEMBER NEXT TIME FOR"
Keyword == {"REMEMBER NEXT TIME FOR", "remember next time for"}

\* the text 'REMEMBER NEXT TIME FOR <feature> (<info>)'
Annotation(kw, feature, info) ==
    <<kw, " ">> \o feature \o <<" ", "(">> \o info \o <<")">>

\* every token of text from position i to position j is whitespace
AllSpace(text, i, j) == \A k \in i..j : text[k] \in Whitespace

\* the ways `\s+([^(]+?)\s*\(` can match after a keyword at position s:
\* <<w, g>> for w whitespace tokens, then a group of g tokens other than
\* "(", then whitespace up to a "("
Group1Matches(text, s) ==
    {m \in (1..Len(text)) \X (1..Len(text)) :
        /\ s + m[1] + m[2] < Len(text)
        /\ AllSpace(text, s + 1, s + m[1])
        /\ \A k \in (s + m[1] + 1)..(s + m[1] + m[2]) : text[k] # "("
        /\ \E c \in (s + m[1] + m[2] + 1)..Len(text) :
             /\ text[c] = "("
             /\ AllSpace(text, s + m[1] + m[2] + 1, c - 1)}

\* the match backtracking tries first: `\s+` greedy, `[^(]+?` lazy
Group1Best(text, s) ==
    LET all == Group1Matches(text, s)
    IN  CHOOSE m \in all :
            \A o \in all : m[1] > o[1] \/ (m[1] = o[1] /\ m[2] <= o[2])

\* the "(" that `\(` matches: the first one after position p
ParenAfter(text, p) ==
    CHOOSE c \in (p + 1)..Len(text) :
        /\ text[c] = "("
        /\ \A k \in (p + 1)..(c - 1) : text[k] # "("

\* the ways `\s*(.*?)\s*\)` can match after the "(" at position c: <<w, g>>
\* for w whitespace tokens, then a group of g tokens of any kind (re.DOTALL),
\* then whitespace up to a ")"
Group2Matches(text, c) ==
    {m \in (0..Len(text)) \X (0..Len(text)) :
        /\ c + m[1] + m[2] < Len(text)
        /\ AllSpace(text, c + 1, c + m[1])
        /\ \E f \in (c + m[1] + m[2] + 1)..Len(text) :
             /\ text[f] = ")"
             /\ AllSpace(text, c + m[1] + m[2] + 1, f - 1)}

\* the match backtracking tries first: `\s*` greedy, `.*?` lazy
Group2Best(text, c) ==
    LET all == Group2Matches(text, c)
    IN  CHOOSE m \in all :
            \A o \in all : m[1] > o[1] \/ (m[1] = o[1] /\ m[2] <= o[2])

\* the pattern matches with its keyword at position s
MatchesAt(text, s) ==
    /\ text[s] \in Keyword
    /\ Group1Matches(text, s) # {}
    /\ Group2Matches(text, ParenAfter(text, s)) # {}

\* a parsed annotation, and the None of a text without one
Parsed(feature, info) == [found |-> TRUE, feature |-> feature, info |-> info]

NotParsed == [found |-> FALSE, feature |-> <<>>, info |-> <<>>]

\* parse_remember_next_time: re.search takes the leftmost match, and
\* .strip() is applied to both groups
parse_remember_next_time(text) ==
    IF \E s \in 1..Len(text) : MatchesAt(text, s)
    THEN LET s == CHOOSE k \in 1..Len(text) :
                      /\ MatchesAt(text, k)
                      /\ \A j \in 1..(k - 1) : ~MatchesAt(text, j)
             m1 == Group1Best(text, s)
             c == ParenAfter(text, s)
             m2 == Group2Best(text, c)
         IN  Parsed(Strip(SubSeq(text, s + m1[1] + 1, s + m1[1] + m1[2])),
                    Strip(SubSeq(text, c + m2[1] + 1, c + m2[1] + m2[2])))
    ELSE NotParsed

\* feature names and information texts an annotation is written with
Features == SeqsUpTo({"a", " ", "("}, MaxFeatureLen)

Infos == SeqsUpTo({"a", " ", "(", ")"}, MaxInfoLen)

\* a second annotation following the first in the same task description
SecondAnnotation ==
    <<" ">> \o Annotation("remember next time for", <<"b">>, <<"b", "b">>)

\* task descriptions that carry one annotation or two
AnnotatedTasks ==
    {[feature |-> f, info |-> i,
      text |-> Annotation(kw, f, i) \o (IF two THEN SecondAnnotation ELSE <<>>)] :
        kw \in Keyword, f \in Features, i \in Infos, two \in BOOLEAN}

\* a call of the parser returns
CallParse ==
    /\ fn = "parse"
    /\ fpc = "call"
    /\ res' = parse_remember_next_time(arg.text)
    /\ fpc' = "ret"
    /\ UNCHANGED <<ovars, rvars, fn, arg, fs>>

\* ------------------------------------------------------------------------
\* Context updater: the file name of a feature
\* ------------------------------------------------------------------------

\* longest feature name a file name is computed for, in tokens
MaxNameLen == 3

\* str.lower() on the words that occur in feature names; a word is a run of
\* word characters (`\w`), here one token
LowerWord(w) ==
    CASE w = "A" -> "a"
      [] w = "User" -> "user"
      [] w = "Management" -> "management"
      [] w = "API" -> "api"
      [] w = "Authentication" -> "authentication"
      [] w = "Billing" -> "billing"
      [] w = "Air" -> "air"
      [] w = "Employee" -> "employee"
      [] OTHER -> w

\* the tokens that consist of word characters only
Words ==
    {"A", "User", "Management", "API", "Authentication", "Billing", "Air",
     "Employee", "a", "_1", "user", "management", "api", "authentication",
     "billing", "payment", "file", "upload", "feature", "spaced", "air",
     "employee", "1094", "1095"}

\* feature_name.lower()
LowerText(s) == [i \in 1..Len(s) |-> LowerWord(s[i])]

\* re.sub(r'[^\w\-]', '-', s): every character that is neither a word
\* character nor a hyphen becomes a hyphen
SubNonWord(s) ==
    [i \in 1..Len(s) |-> IF s[i] \in Words \cup {"-"} THEN s[i] ELSE "-"]

\* re.sub(r'-+', '-', s): a run of hyphens becomes one hyphen
RECURSIVE CollapseHyphens(_)
CollapseHyphens(s) ==
    IF Len(s) < 2 THEN s
    ELSE IF s[1] = "-" /\ s[2] = "-" THEN CollapseHyphens(Tail(s))
    ELSE <<s[1]>> \o CollapseHyphens(Tail(s))

\* s.strip('-')
RECURSIVE StripHyphens(_)
StripHyphens(s) ==
    IF s = <<>> THEN s
    ELSE IF Head(s) = "-" THEN StripHyphens(Tail(s))
    ELSE IF s[Len(s)] = "-" THEN StripHyphens(SubSeq(s, 1, Len(s) - 1))
    ELSE s

\* variant of safe_feature_name without the final strip('-')
safe_feature_nameMut(feature_name) ==
    CollapseHyphens(SubNonWord(LowerText(feature_name)))

\* safe_feature_name (context_updater.py:135-136)
safe_feature_name(feature_name) ==
    StripHyphens(CollapseHyphens(SubNonWord(LowerText(feature_name))))

\* the feature names of the repository's sanitization test
SanitizationCases ==
    { <<"User", " ", "Management">>,
      <<"billing", "/", "payment">>,
      <<"API", " ", "&", " ", "Authentication">>,
      <<"file", "-", "upload", " ", "feature", "!">>,
      <<" ", " ", " ", "spaced", " ", " ", " ">> }

\* feature names a file name is computed for
FeatureNames ==
    SanitizationCases \cup SeqsUpTo({"A", "a", "_1", "-", " ", "/", "!"}, MaxNameLen)

\* the file name of a feature is computed
CallSlug ==
    /\ fn = "slug"
    /\ fpc = "call"
    /\ res' = safe_feature_name(arg)
    /\ fpc' = "ret"
    /\ UNCHANGED <<ovars, rvars, fn, arg, fs>>

\* ------------------------------------------------------------------------
\* Context updater: generate and write a context file
\* ------------------------------------------------------------------------

\* os.path.exists / Path.exists of <context_dir>/<name>.txt
FileExists(fsv, name) == name \in DOMAIN fsv.files /\ fsv.files[name].exists

\* contents context files have before any update: empty, and text with
\* whitespace around it
OldContents == { <<>>, <<" ", "old", "\n">> }

\* what the chat completion can come back with: an error, or a message
LlmFails == <<"error">>

LlmOutcomes == { LlmFails, <<"\n", "new1", " ">>, <<"new2">> }

\* OPENAI_API_KEY in the environment: unset, set to "", set to a key
KeyStates == {"absent", "empty", "set"}

\* how the file system answers the calls of update_context_file
IoOutcomes == {"ok", "read_fails", "mkdir_fails", "open_fails", "write_fails"}

\* the existing_content argument: a text, or None
Given(content) == [given |-> TRUE, content |-> content]

NotGiven == [given |-> FALSE, content |-> <<>>]

\* generate_context_content: what it was given, the prompt it built and what
\* it returned, or that it raised
generate_context_content(existing_content, key, llm) ==
    IF key # "set"
    THEN [called |-> TRUE, received |-> existing_content, prompt |-> "none",
          raised |-> TRUE, content |-> <<>>]
    ELSE [called |-> TRUE, received |-> existing_content,
          prompt |-> IF existing_content.given /\ existing_content.content # <<>>
                     THEN "update" ELSE "create",
          raised |-> llm = LlmFails,
          content |-> IF llm = LlmFails THEN <<>> ELSE Strip(llm)]

\* generation was not reached
NotGenerated ==
    [called |-> FALSE, received |-> NotGiven, prompt |-> "none",
     raised |-> FALSE, content |-> <<>>]

\* str(context_file_path), and the None returned in place of a path
PathOf(name) == [some |-> TRUE, name |-> name]

NoPath == [some |-> FALSE, name |-> <<>>]

\* variant of WriteFile that appends to the previous content
WriteFileMut(fsv, name, new_content) ==
    [dir |-> TRUE,
     files |-> [fsv.files EXCEPT
                  ![name] = File(fsv.files[name].content \o new_content)]]

\* mkdir(parents=True, exist_ok=True), open(path, 'w'), f.write(new_content)
WriteFile(fsv, name, new_content) ==
    [dir |-> TRUE, files |-> [fsv.files EXCEPT ![name] = File(new_content)]]

\* update_context_file: the path returned or the stage that raised, what
\* generation was called with, and the context directory afterwards
update_context_file(fsv, feature_name, key, llm, io) ==
    LET name == safe_feature_name(feature_name)
        existed == FileExists(fsv, name)
        existing_content ==
            IF existed THEN Given(Strip(fsv.files[name].content)) ELSE NotGiven
        gen == generate_context_content(existing_content, key, llm)
        failed(stage, g, after_fs) ==
            [raised |-> TRUE, stage |-> stage, path |-> NoPath, gen |-> g,
             fs |-> after_fs]
    IN  IF existed /\ io = "read_fails" THEN failed("read", NotGenerated, fsv)
        ELSE IF gen.raised THEN failed("generate", gen, fsv)
        ELSE IF io = "mkdir_fails" THEN failed("write", gen, fsv)
        ELSE IF io = "open_fails"
             THEN failed("write", gen, [fsv EXCEPT !.dir = TRUE])
        ELSE IF io = "write_fails"
             THEN failed("write", gen, WriteFile(fsv, name, <<>>))
        ELSE [raised |-> FALSE, stage |-> "none", path |-> PathOf(name),
              gen |-> gen, fs |-> WriteFile(fsv, name, gen.content)]

\* variant of process_task_for_context_updates without the try/except
process_task_for_context_updatesMut(fsv, task_description, key, llm, io) ==
    LET remember_info == parse_remember_next_time(task_description)
    IN  IF ~remember_info.found
        THEN [raised |-> FALSE, stage |-> "none", path |-> NoPath,
              gen |-> NotGenerated, fs |-> fsv]
        ELSE update_context_file(fsv, remember_info.feature, key, llm, io)

\* process_task_for_context_updates: None without an annotation, the path of
\* the updated file otherwise, None when update_context_file raised
process_task_for_context_updates(fsv, task_description, key, llm, io) ==
    LET remember_info == parse_remember_next_time(task_description)
        u == update_context_file(fsv, remember_info.feature, key, llm, io)
    IN  IF ~remember_info.found
        THEN [raised |-> FALSE, stage |-> "none", path |-> NoPath,
              gen |-> NotGenerated, fs |-> fsv]
        ELSE IF u.raised THEN [u EXCEPT !.raised = FALSE]
        ELSE u

\* task descriptions handed to the context updater: without an annotation,
\* with the keyword but no parenthesised text, with one annotation after
\* other text, with two annotations
CtxTasks ==
    { <<"txt">>,
      <<"REMEMBER NEXT TIME FOR", " ", "Billing">>,
      <<"txt", " ">> \o Annotation("REMEMBER NEXT TIME FOR", <<"Billing">>, <<"txt">>),
      Annotation("remember next time for", <<"Air", " ", "Employee">>, <<"txt">>)
        \o SecondAnnotation }

\* feature names update_context_file is called with directly
CtxFeatures == { <<"Billing">>, <<"billing">>, <<"Air", " ", "Employee">> }

\* one call of process_task_for_context_updates, from start to return
ProcessTask ==
    \E t \in CtxTasks, key \in KeyStates, llm \in LlmOutcomes, io \in IoOutcomes :
        LET r == process_task_for_context_updates(fs, t, key, llm, io)
        IN  /\ fpc = "off"
            /\ fn' = "process"
            /\ arg' = [task |-> t, key |-> key, llm |-> llm, io |-> io]
            /\ res' = [raised |-> r.raised, stage |-> r.stage, path |-> r.path,
                       gen |-> r.gen]
            /\ fs' = r.fs
            /\ fpc' = "ret"
            /\ UNCHANGED <<ovars, rvars>>

\* one call of update_context_file, from start to return or raise
UpdateFile ==
    \E f \in CtxFeatures, key \in KeyStates, llm \in LlmOutcomes, io \in IoOutcomes :
        LET r == update_context_file(fs, f, key, llm, io)
        IN  /\ fpc = "off"
            /\ fn' = "update"
            /\ arg' = [feature |-> f, key |-> key, llm |-> llm, io |-> io]
            /\ res' = [raised |-> r.raised, stage |-> r.stage, path |-> r.path,
                       gen |-> r.gen]
            /\ fs' = r.fs
            /\ fpc' = "ret"
            /\ UNCHANGED <<ovars, rvars>>

\* ------------------------------------------------------------------------
\* Context loader
\* ------------------------------------------------------------------------

\* longest label list the loader is called with
MaxLabels == 2

\* the label that also attaches air-employee.txt, and that file's name
AirLabel == <<"1094", "/", "1095">>

AirFile == <<"air", "-", "employee">>

\* labels an issue can carry: the three with a file name of the context
\* directory, and one that never has a file
LabelNames == FileNames \cup { <<"bug">> }

\* "\n\n", the text between two joined pieces
BlankLine == <<"\n", "\n">>

\* "\n\n".join(parts)
RECURSIVE JoinParts(_)
JoinParts(parts) ==
    IF parts = <<>> THEN <<>>
    ELSE IF Len(parts) = 1 THEN parts[1]
    ELSE parts[1] \o BlankLine \o JoinParts(Tail(parts))

\* what one iteration of the loop appends to context_parts
PartsOf(fsv, label) ==
    (IF FileExists(fsv, label) THEN <<fsv.files[label].content>> ELSE <<>>)
      \o (IF label = AirLabel /\ FileExists(fsv, AirFile)
          THEN <<fsv.files[AirFile].content>> ELSE <<>>)

\* context_parts after the loop over the labels
RECURSIVE ContextParts(_, _)
ContextParts(fsv, label_list) ==
    IF label_list = <<>> THEN <<>>
    ELSE PartsOf(fsv, Head(label_list)) \o ContextParts(fsv, Tail(label_list))

\* variant of the loader that attaches air-employee.txt only when the
\* label's own file exists
load_context_from_labelsMut(fsv, label_list) ==
    JoinParts(ContextParts([fsv EXCEPT !.files[AirFile] =
                                IF FileExists(fsv, AirLabel) THEN @ ELSE NoFile],
                           label_list))

\* load_context_from_labels
load_context_from_labels(fsv, label_list) == JoinParts(ContextParts(fsv, label_list))

\* one call of load_context_from_labels, from start to return
LoadContext ==
    \E l \in SeqsUpTo(LabelNames, MaxLabels) :
        /\ fpc = "off"
        /\ fn' = "load"
        /\ arg' = l
        /\ res' = load_context_from_labels(fs, l)
        /\ fpc' = "ret"
        /\ UNCHANGED <<ovars, rvars, fs>>

\* ------------------------------------------------------------------------
\* Orchestrator: the final result of a child's output
\* ------------------------------------------------------------------------

\* longest child output the extraction is applied to, in tokens
MaxOutLen == 4

\* the literal 'Final Result:'
ResultMarker == "Final Result:"

\* the words of the lookahead `\[?INFO\]?|\[?ERROR\]?|\[?WARNING\]?|\[?DEBUG\]?`
LevelWords == {"INFO", "ERROR", "WARNING", "DEBUG"}

\* the words `(INFO|WARNING|ERROR|DEBUG)` matches under re.IGNORECASE, of
\* which "Error" stands for every spelling that is not upper case
LevelWordsAnyCase == LevelWords \cup {"Error"}

\* a colour sequence `\x1b\[[0-9;]*m`, as one token
Ansi == "ansi"

\* the text 'Check ./tmp/recordings', as one token
CheckHint == "Check ./tmp/recordings"

\* the text returned when the pattern does not match
NoFinalResult == <<"No final result found.">>

\* the lookahead `(?=\[?INFO\]?|...|$)` holds before position p; without
\* re.MULTILINE `$` holds at the end and before a final newline
LookaheadAt(out, p) ==
    \/ p = Len(out) + 1
    \/ p = Len(out) /\ out[p] = "\n"
    \/ p <= Len(out) /\ out[p] \in LevelWords
    \/ p < Len(out) /\ out[p] = "[" /\ out[p + 1] \in LevelWords

\* match.group(1): the lazy `(.*?)` after the first marker, up to the first
\* position where the lookahead holds
CapturedResult(out) ==
    LET s == CHOOSE k \in 1..Len(out) :
                 /\ out[k] = ResultMarker
                 /\ \A j \in 1..(k - 1) : out[j] # ResultMarker
        p == CHOOSE k \in (s + 1)..(Len(out) + 1) :
                 /\ LookaheadAt(out, k)
                 /\ \A j \in (s + 1)..(k - 1) : ~LookaheadAt(out, j)
    IN  SubSeq(out, s + 1, p - 1)

\* re.sub(r'\x1b\[[0-9;]*m', '', result)
RemoveAnsi(s) == SelectSeq(s, LAMBDA t : t # Ansi)

\* `^` under re.MULTILINE: position i starts a line
LineStart(s, i) == i = 1 \/ s[i - 1] = "\n"

\* the first position from i on that holds no whitespace (`\s*` is greedy and
\* matches newlines too), Len(s) + 1 if there is none
SpaceEnd(s, i) ==
    CHOOSE k \in i..(Len(s) + 1) :
        /\ k <= Len(s) => s[k] \notin Whitespace
        /\ \A j \in i..(k - 1) : s[j] \in Whitespace

\* the first position from i on that holds whitespace (where `\S+` stops),
\* Len(s) + 1 if there is none
SpaceStart(s, i) ==
    CHOOSE k \in i..(Len(s) + 1) :
        /\ k <= Len(s) => s[k] \in Whitespace
        /\ \A j \in i..(k - 1) : s[j] \notin Whitespace

\* the first position from i on that holds a newline, Len(s) + 1 if none
LineEnd(s, i) ==
    CHOOSE k \in i..(Len(s) + 1) :
        /\ k <= Len(s) => s[k] = "\n"
        /\ \A j \in i..(k - 1) : s[j] # "\n"

\* where the level word of `^(\[?\s*(INFO|WARNING|ERROR|DEBUG)` must stand
\* for a match that begins at position i
LevelPos(s, i) == SpaceEnd(s, IF s[i] = "[" THEN i + 1 ELSE i)

\* the pattern of log lines matches at position i
LogLineAt(s, i) ==
    /\ LineStart(s, i)
    /\ LevelPos(s, i) <= Len(s)
    /\ s[LevelPos(s, i)] \in LevelWordsAnyCase

\* the position after that match: `\s*\]?)[^\n]*$` takes the whitespace
\* after the level word, a "]", and everything up to the next newline
LogLineStop(s, i) ==
    LET m == SpaceEnd(s, LevelPos(s, i) + 1)
    IN  LineEnd(s, IF m <= Len(s) /\ s[m] = "]" THEN m + 1 ELSE m)

\* re.sub of the log-line pattern by '', from position i on
RECURSIVE RemoveLogLines(_, _)
RemoveLogLines(s, i) ==
    IF i > Len(s) THEN <<>>
    ELSE IF LogLineAt(s, i) THEN RemoveLogLines(s, LogLineStop(s, i))
    ELSE <<s[i]>> \o RemoveLogLines(s, i + 1)

\* re.sub(r'^Check \.\/tmp\/recordings.*$', '', result), from position i on
RECURSIVE RemoveCheckLines(_, _)
RemoveCheckLines(s, i) ==
    IF i > Len(s) THEN <<>>
    ELSE IF LineStart(s, i) /\ s[i] = CheckHint
         THEN RemoveCheckLines(s, LineEnd(s, i))
    ELSE <<s[i]>> \o RemoveCheckLines(s, i + 1)

\* re.sub(r'\n+', '\n', result)
RECURSIVE CollapseNewlines(_)
CollapseNewlines(s) ==
    IF Len(s) < 2 THEN s
    ELSE IF s[1] = "\n" /\ s[2] = "\n" THEN CollapseNewlines(Tail(s))
    ELSE <<s[1]>> \o CollapseNewlines(Tail(s))

\* extract_final_result
extract_final_result(output) ==
    IF \E k \in 1..Len(output) : output[k] = ResultMarker
    THEN Strip(CollapseNewlines(
             RemoveCheckLines(
                 RemoveLogLines(RemoveAnsi(CapturedResult(output)), 1), 1)))
    ELSE NoFinalResult

\* the output of the example, 'Final Result:\n- Login succeeded\n[INFO] done'
ExampleOutput ==
    <<ResultMarker, "\n", "txt", "\n", "[", "INFO", "]", " ", "txt">>

\* outputs of a child process: every short text over the tokens the
\* extraction tells apart, the example, and a result that reads like the
\* text returned for no result
ChildOutputs ==
    SeqsUpTo({ResultMarker, "INFO", "Error", "[", "\n", " ", Ansi, "txt",
              CheckHint}, MaxOutLen)
      \cup { ExampleOutput, <<ResultMarker, " ">> \o NoFinalResult }

\* the final result of an output is extracted
CallFinal ==
    /\ fn = "final"
    /\ fpc = "call"
    /\ res' = extract_final_result(arg)
    /\ fpc' = "ret"
    /\ UNCHANGED <<ovars, rvars, fn, arg, fs>>

\* ------------------------------------------------------------------------
\* The video URL handed from the Runner to the Orchestrator
\* ------------------------------------------------------------------------

\* longest agent log before the Runner's own lines, and longest URL after
\* its scheme, in tokens
MaxLogLen == 2

MaxUrlLen == 2

\* the literal 'VIDEO_URL::'
VideoMarker == "VIDEO_URL::"

\* what `https?://` matches
Schemes == {"http://", "https://"}

\* URLs upload_asset returns: a scheme, then characters other than whitespace
VideoUrls ==
    {<<sch>> \o u : sch \in Schemes, u \in SeqsUpTo({"u", "/"}, MaxUrlLen) \ {<<>>}}

\* what the agent run writes to the captured stream before the Runner's own
\* lines: log text that holds no 'VIDEO_URL::'
AgentLogs == SeqsUpTo({"txt", "\n"}, MaxLogLen)

\* how the tail of the Runner's main() ends: no recording found, no release,
\* or the recording uploaded to a URL
Uploads ==
    {[kind |-> "no_video", url |-> <<>>], [kind |-> "no_release", url |-> <<>>]}
      \cup {[kind |-> "uploaded", url |-> u] : u \in VideoUrls}

\* the lines print() writes at the end of the Runner's main()
RunnerTail(upload) ==
    CASE upload.kind = "no_video" ->
           <<"No video file found to upload.", "\n">>
      [] upload.kind = "no_release" ->
           <<"Uploading video:", " ", "txt", "\n",
             "Failed to get or create release, skipping video upload.", "\n">>
      [] OTHER ->
           <<"Uploading video:", " ", "txt", "\n",
             "Video uploaded! Download URL:", " ">> \o upload.url \o <<"\n">>
             \o <<VideoMarker>> \o upload.url \o <<"\n">>

\* the pattern `VIDEO_URL::(https?://\S+)` matches at position i
VideoMatchAt(out, i) ==
    /\ out[i] = VideoMarker
    /\ i + 2 <= Len(out)
    /\ out[i + 1] \in Schemes
    /\ out[i + 2] \notin Whitespace

\* variant of extract_video_url whose `\S+` stops after one token
extract_video_urlMut(out) ==
    IF \E i \in 1..Len(out) : VideoMatchAt(out, i)
    THEN LET i == CHOOSE k \in 1..Len(out) :
                      VideoMatchAt(out, k) /\ \A j \in 1..(k - 1) : ~VideoMatchAt(out, j)
         IN  Found(SubSeq(out, i + 1, i + 2))
    ELSE NotFound

\* extract_video_url / extract_video_url_from_output: group 1 of the
\* leftmost match, its `\S+` running to the next whitespace or the end
extract_video_url(out) ==
    IF \E i \in 1..Len(out) : VideoMatchAt(out, i)
    THEN LET i == CHOOSE k \in 1..Len(out) :
                      VideoMatchAt(out, k) /\ \A j \in 1..(k - 1) : ~VideoMatchAt(out, j)
         IN  Found(SubSeq(out, i + 1, SpaceStart(out, i + 2) - 1))
    ELSE NotFound

\* the text '▶️ [View Test Video Here](' that opens the link of a comment
VideoLinkText == "[View Test Video Here]("

\* collapse_output; "fence" is the line of three backquotes
collapse_output(full_output) ==
    <<"<details><summary>Full agent output (click to expand)</summary>",
      "\n", "\n", "fence", "\n">>
      \o RemoveAnsi(full_output) \o <<"\n", "fence", "\n", "</details>">>

\* the comment run_agent_for_issue builds from the captured output
SessionComment(output) ==
    LET video_url == extract_video_url(output)
        video_link == IF video_url.found
                      THEN <<"\n", "\n", VideoLinkText>> \o video_url.body \o <<")">>
                      ELSE <<>>
    IN  <<"Test run complete!", "\n", "\n", "**Result:**", "\n">>
          \o extract_final_result(output) \o video_link
          \o <<"\n", "\n">> \o collapse_output(output)

\* the Runner exits, its output captured by process.communicate()
RunnerExits ==
    /\ fn = "video"
    /\ fpc = "call"
    /\ res' = [output |-> arg.log \o RunnerTail(arg.upload),
               video_url |-> NotFound, comment |-> <<>>]
    /\ fpc' = "out"
    /\ UNCHANGED <<ovars, rvars, fn, arg, fs>>

\* the session extracts the URL and builds its comment
SessionBuildsComment ==
    /\ fn = "video"
    /\ fpc = "out"
    /\ res' = [res EXCEPT !.video_url = extract_video_url(res.output),
                          !.comment = SessionComment(res.output)]
    /\ fpc' = "ret"
    /\ UNCHANGED <<ovars, rvars, fn, arg, fs>>

\* ------------------------------------------------------------------------
\* Loading the project-issues module
\* ------------------------------------------------------------------------

\* the variables the module reads, in the order it reads them
EnvKeys == <<"PROJECT_UNIQUE_ID", "COLUMN_ID", "GITHUB_TOKEN">>

EnvKeySet == {EnvKeys[i] : i \in 1..Len(EnvKeys)}

\* assignments of values to some of the variables
Settings(values) == UNION {[D -> values] : D \in SUBSET EnvKeySet}

\* the process environment before the import: a variable is unset, set to
\* the empty string or set to a value
ProcessEnvs == Settings({"", "from-env"})

\* the .env file load_dotenv() finds: none or an empty one (no variable), or
\* one that defines some of the variables
DotenvFiles == Settings({"from-file"})

\* load_dotenv(): a variable of the file is put into os.environ unless the
\* environment already has it (override=False)
load_dotenv(environ, file) ==
    [k \in DOMAIN environ \cup DOMAIN file |->
        IF k \in DOMAIN environ THEN environ[k] ELSE file[k]]

\* variant of ModuleLoad that reads with os.environ.get(key, "")
ModuleLoadMut(environ) ==
    [raised |-> FALSE, key |-> "",
     values |-> [i \in 1..Len(EnvKeys) |->
                    IF EnvKeys[i] \in DOMAIN environ THEN environ[EnvKeys[i]] ELSE ""]]

\* PROJECT_UNIQUE_ID = os.environ["PROJECT_UNIQUE_ID"] and the two lines
\* after it: KeyError at the first variable that is not set
ModuleLoad(environ) ==
    LET missing == {i \in 1..Len(EnvKeys) : EnvKeys[i] \notin DOMAIN environ}
    IN  IF missing # {}
        THEN [raised |-> TRUE,
              key |-> EnvKeys[CHOOSE i \in missing : \A j \in missing : i <= j],
              values |-> <<>>]
        ELSE [raised |-> FALSE, key |-> "",
              values |-> [i \in 1..Len(EnvKeys) |-> environ[EnvKeys[i]]]]

\* `import project_issues`: load_dotenv() runs
ImportLoadsDotenv ==
    /\ fn = "import"
    /\ fpc = "call"
    /\ res' = [environ |-> load_dotenv(arg.environ, arg.file),
               module |-> [raised |-> FALSE, key |-> "", values |-> <<>>]]
    /\ fpc' = "env"
    /\ UNCHANGED <<ovars, rvars, fn, arg, fs>>

\* `import project_issues`: the three variables are read
ImportReadsEnviron ==
    /\ fn = "import"
    /\ fpc = "env"
    /\ res' = [res EXCEPT !.module = ModuleLoad(res.environ)]
    /\ fpc' = "ret"
    /\ UNCHANGED <<ovars, rvars, fn, arg, fs>>

\* ------------------------------------------------------------------------
\* The video pipeline: Runner main() after the agent call, the workflow of
\* bernard/video.py, and the session that reads a Runner's output
\* ------------------------------------------------------------------------

\* number of video processes running side by side
NumRunners == 2

Runners == 1..NumRunners

\* the issue number the Orchestrator passes to Runner r as sys.argv[2]
IssueOf(r) ==
    CASE r = 1 -> 1
      [] r = 2 -> 4
      [] r = 3 -> 9
      [] OTHER -> 10

\* no file: what glob finds in an empty directory, an absent URL
NoVideo == [by |-> None, mtime |-> 0]

\* a recording left in the directory by an earlier run
StaleVideo == [by |-> None, mtime |-> 1]

\* the modification time of a file written now: later than every file's
Now == IF rec = {} THEN 1 ELSE 1 + (CHOOSE t \in {f.mtime : f \in rec} :
                                        \A f \in rec : f.mtime <= t)

\* a video process that has not started; `lookup` holds what the release
\* lookup answered while the create request is pending or after it was refused
NoRun ==
    [impl |-> "off", issue |-> None, pc |-> "off", out |-> "running",
     agent |-> "none", latest |-> NoVideo, lookup |-> "none",
     release |-> "none", url |-> NoVideo,
     marker |-> FALSE, requests |-> <<>>, rgot |-> {},
     comment |-> [made |-> FALSE, video |-> NoVideo]]

SetRun(r, v) == run' = [run EXCEPT ![r] = v]

\* the process makes one more request to GitHub
Requested(r, what) == Append(run[r].requests, what)

\* the process ends: main() / the workflow returns, or an exception leaves it
Ended(v, how) == [v EXCEPT !.pc = "end", !.out = how]

\* `await agent.run(max_steps=80)`: it returns, or its exception ends main()
AgentReturns(r) ==
    /\ run[r].pc = "agent"
    /\ \E ok \in BOOLEAN :
         SetRun(r, IF ok THEN [run[r] EXCEPT !.agent = "returned", !.pc = "finalize"]
                   ELSE Ended([run[r] EXCEPT !.agent = "raised"], "raised"))
    /\ UNCHANGED <<ovars, fvars, rec, rel>>

\* variant of Finalize without the try/except: a failing stop_and_save ends
\* the process
FinalizeMut(r) ==
    /\ run[r].pc = "finalize"
    /\ \E how \in {"saved", "failed", "no_recorder"} :
         /\ SetRun(r, IF how = "failed" THEN Ended(run[r], "raised")
                         ELSE [run[r] EXCEPT !.pc = "find"])
         /\ rec' = IF how = "saved"
                   THEN rec \cup {[by |-> r, mtime |-> Now]}
                   ELSE rec
    /\ UNCHANGED <<ovars, fvars, rel>>

\* stop_and_save under try/except (run_bernard_qa_agent.py:330-334,
\* video.py finalize_video_recording): the recording is written, or the
\* failure is printed, or there is no recorder; the next stage follows
Finalize(r) ==
    /\ run[r].pc = "finalize"
    /\ \E how \in {"saved", "failed", "no_recorder"} :
         /\ SetRun(r, [run[r] EXCEPT !.pc = "find"])
         /\ rec' = IF how = "saved"
                   THEN rec \cup {[by |-> r, mtime |-> Now]}
                   ELSE rec
    /\ UNCHANGED <<ovars, fvars, rel>>

\* max(glob('./tmp/recordings/*.mp4'), key=os.path.getmtime), absent when
\* the directory holds no .mp4 file
find_latest_video_file(dir) ==
    IF dir = {} THEN NoVideo
    ELSE CHOOSE f \in dir : \A g \in dir : g.mtime <= f.mtime

\* the pipeline after the file lookup: with no file it ends here
Found_or_end(r, f) ==
    SetRun(r, IF f = NoVideo THEN Ended(run[r], "returned")
              ELSE [run[r] EXCEPT !.latest = f, !.pc = "rel_get"])

\* variant of FindLatest that looks at the files of its own session only
FindLatestMut(r) ==
    /\ run[r].pc = "find"
    /\ Found_or_end(r, find_latest_video_file({f \in rec : f.by = r}))
    /\ UNCHANGED <<ovars, fvars, rec, rel>>

\* the newest file of the recordings directory is looked up
FindLatest(r) ==
    /\ run[r].pc = "find"
    /\ Found_or_end(r, find_latest_video_file(rec))
    /\ UNCHANGED <<ovars, fvars, rec, rel>>

\* the status GitHub answers the release lookup with
LookupStatuses == IF rel.count > 0 THEN {"200", "500"} ELSE {"404", "500"}

\* `if r.status_code == 200: return id, upload_url`
ReleaseFound(status) == status = "200"

\* get-or-create-release, the GET: HTTP 200 returns the release, any other
\* status goes on to the create request
ReleaseGet(r) ==
    /\ run[r].pc = "rel_get"
    /\ \E status \in LookupStatuses :
         SetRun(r, [run[r] EXCEPT
                      !.requests = Requested(r, "rel_get"),
                      !.lookup = IF ReleaseFound(status) THEN @ ELSE status,
                      !.release = IF ReleaseFound(status) THEN "found" ELSE @,
                      !.pc = IF ReleaseFound(status) THEN "upload" ELSE "rel_post"])
    /\ UNCHANGED <<ovars, fvars, rec, rel>>

\* the status GitHub answers the create request with: a tag has one release
CreateStatuses == IF rel.count > 0 THEN {"422", "500"} ELSE {"201", "500"}

\* what a failed create request turns into: raise_for_status leaves
\* get_or_create_release and main() (run_bernard_qa_agent.py:73); video.py
\* catches the HTTPError and returns None, and the workflow returns absent
CreateFailed(v, status) ==
    LET w == [v EXCEPT !.lookup = IF status = "422" THEN @ ELSE "none",
                       !.release = IF status = "422" THEN "already_exists"
                                   ELSE "error"]
    IN  IF v.impl = "runner" THEN Ended(w, "raised") ELSE Ended(w, "returned")

\* get-or-create-release, the POST
ReleaseCreate(r) ==
    /\ run[r].pc = "rel_post"
    /\ \E status \in CreateStatuses :
         LET v == [run[r] EXCEPT !.requests = Requested(r, "rel_post")] IN
         IF status = "201"
         THEN /\ rel' = [rel EXCEPT !.count = @ + 1]
              /\ SetRun(r, [v EXCEPT !.lookup = "none", !.release = "created",
                                      !.pc = "upload"])
         ELSE /\ rel' = rel
              /\ SetRun(r, CreateFailed(v, status))
    /\ UNCHANGED <<ovars, fvars, rec>>

\* the status GitHub answers the asset upload with: a release holds one
\* asset of a name
UploadStatuses(r) ==
    IF run[r].latest \in rel.assets THEN {"422", "500"} ELSE {"201", "500"}

\* what follows the VIDEO_URL:: line: `if issue_number: update_labels(...)`
\* in the Runner, the return of the URL in the workflow of video.py
AfterMarker(v) ==
    IF v.impl = "runner" /\ v.issue # None THEN [v EXCEPT !.pc = "upd_get"]
    ELSE Ended(v, "returned")

\* variant of UploadFailed in which the Runner goes on to the label update
UploadFailedMut(v) == AfterMarker(v)

\* what a failed upload turns into: raise_for_status leaves upload_asset
\* and main() (run_bernard_qa_agent.py:102); video.py catches the HTTPError
\* and the workflow returns absent
UploadFailed(v) ==
    IF v.impl = "runner" THEN Ended(v, "raised") ELSE Ended(v, "returned")

\* the asset upload; on success the download URL is printed on the
\* VIDEO_URL:: line
Upload(r) ==
    /\ run[r].pc = "upload"
    /\ \E status \in UploadStatuses(r) :
         LET v == [run[r] EXCEPT !.requests = Requested(r, "upload")] IN
         IF status = "201"
         THEN /\ rel' = [rel EXCEPT !.assets = @ \cup {run[r].latest}]
              /\ SetRun(r, AfterMarker([v EXCEPT !.url = run[r].latest,
                                                 !.marker = TRUE]))
         ELSE /\ rel' = rel
              /\ SetRun(r, UploadFailed(v))
    /\ UNCHANGED <<ovars, fvars, rec>>

\* update_labels, the GET (raise_for_status ends the process)
UpdateGet(r) ==
    /\ run[r].pc = "upd_get"
    /\ \E ok \in BOOLEAN :
         LET v == [run[r] EXCEPT !.requests = Requested(r, "labels_get")] IN
         SetRun(r, IF ok THEN [v EXCEPT !.rgot = labels[v.issue], !.pc = "upd_patch"]
                   ELSE Ended(v, "raised"))
    /\ UNCHANGED <<ovars, fvars, rec, rel>>

\* update_labels, the PATCH, then main() returns
UpdatePatch(r) ==
    /\ run[r].pc = "upd_patch"
    /\ \E ok \in BOOLEAN :
         LET v == [run[r] EXCEPT !.requests = Requested(r, "labels_patch")] IN
         IF ok
         THEN /\ labels' = [labels EXCEPT ![v.issue] = update_labels(v.rgot)]
              /\ SetRun(r, Ended(v, "returned"))
         ELSE /\ labels' = labels
              /\ SetRun(r, Ended(v, "raised"))
    /\ UNCHANGED <<fvars, rec, rel, board, posted, opc, after, issues, idx, got,
                   tasks, sem, log, reqs>>

\* run_agent_for_issue after communicate(): the comment links the URL of
\* the VIDEO_URL:: line of the child's output, if there is one
SessionComments(r) ==
    /\ run[r].pc = "end"
    /\ run[r].impl = "runner"
    /\ run[r].issue # None
    /\ SetRun(r, [run[r] EXCEPT
                    !.pc = "commented",
                    !.comment = [made |-> TRUE,
                                 video |-> IF run[r].marker THEN run[r].url
                                           ELSE NoVideo]])
    /\ UNCHANGED <<ovars, fvars, rec, rel>>

\* ------------------------------------------------------------------------
\* QA Agent Runner main(): the prompt given to the agent
\* ------------------------------------------------------------------------

\* "Test run complete!" after its check mark, which re.IGNORECASE matches in any letter case
CompleteMarkers == {"Test run complete!", "TEST RUN COMPLETE!"}

\* "Full agent output (click to expand)"
FullOutputMarker == "Full agent output (click to expand)"

\* extract_result_section: the text between the first completion marker and
\* the first "Full agent output" after it (or the end), stripped; None
\* without a marker
extract_result_section(body) ==
    LET starts == {i \in 1..Len(body) : body[i] \in CompleteMarkers} IN
    IF starts = {} THEN NotFound
    ELSE LET i == CHOOSE k \in starts : \A m \in starts : k <= m
             stops == {k \in (i + 1)..Len(body) : body[k] = FullOutputMarker}
             j == IF stops = {} THEN Len(body) + 1
                  ELSE CHOOSE k \in stops : \A m \in stops : k <= m
         IN  Found(Strip(SubSeq(body, i + 1, j - 1)))

\* (^|\s)@bot(\s|$) under re.MULTILINE: the mention stands between
\* whitespace or the ends of the text; a line that is exactly the mention
\* is such a place
TagAt(body, i) ==
    /\ body[i] = "@bot"
    /\ i = 1 \/ body[i - 1] \in Whitespace
    /\ i = Len(body) \/ body[i + 1] \in Whitespace

\* sorted(cs, key=created_at, reverse=True)[0] over the comments at the
\* positions `among`: the newest, the first in list order of equally new ones
MostRecent(comments, among) ==
    CHOOSE i \in among :
        \A j \in among :
            \/ comments[j].createdAt < comments[i].createdAt
            \/ comments[j].createdAt = comments[i].createdAt /\ i <= j

\* get_most_recent_tagged_comment: the body of the newest tagging comment
get_most_recent_tagged_comment(comments) ==
    LET tagged == {i \in 1..Len(comments) :
                      \E k \in 1..Len(comments[i].body) : TagAt(comments[i].body, k)}
    IN  IF tagged = {} THEN NotFound
        ELSE Found(comments[MostRecent(comments, tagged)].body)

\* Python truth of a text that may be None: found and not empty
Truthy(x) == x.found /\ x.body # <<>>

\* the change-request prompt (run_bernard_qa_agent.py:263-274)
ChangeRequestPrompt(last_test_result, change_request_directions) ==
    <<"CHANGE REQUEST", "LAST TEST RESULT (Result section only):", "\n">>
        \o last_test_result
        \o <<"\n", "CHANGE REQUEST INSTRUCTIONS:", "\n">>
        \o change_request_directions \o <<"\n">>

\* f"{directions}\n\n{task}"
NormalPrompt(task) == <<"directions", "\n", "\n">> \o task

\* variant of the prompt selection that detects a change request by a
\* mention of the bot in the task text
RunnerPromptMut(issue_number, task, label_list, comments) ==
    LET is_change_request == issue_number # None /\ Contains(task, Mention)
        bot_comments == {i \in 1..Len(comments) : comments[i].author = BOT_USERNAME}
        last_test_result ==
            IF issue_number = None \/ bot_comments = {} THEN NotFound
            ELSE extract_result_section(comments[MostRecent(comments, bot_comments)].body)
        change_request_directions ==
            IF issue_number = None THEN NotFound
            ELSE get_most_recent_tagged_comment(comments)
    IN  [raised |-> FALSE,
         is_change_request |-> is_change_request,
         full_task |->
            IF /\ is_change_request
               /\ Truthy(last_test_result)
               /\ Truthy(change_request_directions)
            THEN ChangeRequestPrompt(last_test_result.body,
                                     change_request_directions.body)
            ELSE NormalPrompt(task)]

\* main() from the arguments to full_task (run_bernard_qa_agent.py:173-276);
\* the comments are fetched only with an issue number
RunnerPrompt(issue_number, task, label_list, comments) ==
    LET is_change_request ==
            issue_number # None /\ HasLabelLower(label_list, "changes-requested")
        bot_comments == {i \in 1..Len(comments) : comments[i].author = BOT_USERNAME}
        last_test_result ==
            IF issue_number = None \/ bot_comments = {} THEN NotFound
            ELSE extract_result_section(comments[MostRecent(comments, bot_comments)].body)
        change_request_directions ==
            IF issue_number = None THEN NotFound
            ELSE get_most_recent_tagged_comment(comments)
    IN  [raised |-> FALSE,
         is_change_request |-> is_change_request,
         full_task |->
            IF /\ is_change_request
               /\ Truthy(last_test_result)
               /\ Truthy(change_request_directions)
            THEN ChangeRequestPrompt(last_test_result.body,
                                     change_request_directions.body)
            ELSE NormalPrompt(task)]

\* fetch_all_issue_comments raised: main() ends before a prompt exists
PromptRaised == [raised |-> TRUE, is_change_request |-> FALSE, full_task |-> <<>>]

\* bodies of the comments an issue can carry when a Runner starts
PromptBodies ==
    { <<"txt">>,
      <<"@bot", " ", "fix">>,
      <<"@bot", "txt">>,
      <<"Test run complete!", "\n", "res", "\n", FullOutputMarker, "out">>,
      <<"TEST RUN COMPLETE!", "\n", "res2">>,
      <<"Test run complete!", " ", FullOutputMarker>> }

\* longest comment list a Runner finds on its issue
MaxPromptComments == 2

\* the comment lists of an issue, oldest first
PromptComments ==
    UNION {[1..n -> {[author |-> a, body |-> b, createdAt |-> t] :
                        a \in {"dev", BOT_USERNAME}, b \in PromptBodies,
                        t \in 1..2}] : n \in 0..MaxPromptComments}

\* the arguments a Runner is started with
PromptArgs ==
    [issue_number : {None, 1},
     task : {<<"txt">>, <<"@bot", " ", "txt">>},
     label_list : {{}, {"bug"}, {"changes-requested"}, {"Changes-Requested", "bug"}},
     comments : PromptComments]

\* the Runner builds its prompt, or the fetch of the comments fails
BuildPrompt ==
    /\ fn = "prompt"
    /\ fpc = "call"
    /\ \E ok \in BOOLEAN :
         res' = IF ok \/ arg.issue_number = None
                THEN RunnerPrompt(arg.issue_number, arg.task, arg.label_list,
                                  arg.comments)
                ELSE PromptRaised
    /\ fpc' = "ret"
    /\ UNCHANGED <<ovars, rvars, fn, arg, fs>>

\* ------------------------------------------------------------------------
\* Specification
\* ------------------------------------------------------------------------

\* one invocation polls a board with more eligible issues than the cap
InitCap ==
    /\ board = CapBoard
    /\ opc = [p \in Procs |-> IF p = 1 THEN "fetch" ELSE "off"]

\* every invocation polls the same small board, their cycles overlapping
InitRace ==
    /\ board = RaceBoard
    /\ opc = [p \in Procs |-> IF p \in Orchs THEN "fetch" ELSE "off"]

\* a client calls the guarded fetch of the GitHub API client
InitLib ==
    /\ board = CapBoard
    /\ opc = [p \in Procs |-> IF p = Lib THEN "fetch" ELSE "off"]

\* the state of every invocation before its poll cycle begins
InitOrch ==
    /\ labels = InitLabels
    /\ posted = {}
    /\ after = [p \in Procs |-> None]
    /\ issues = [p \in Procs |-> <<>>]
    /\ idx = [o \in Orchs |-> 1]
    /\ got = [o \in Orchs |-> {}]
    /\ tasks = [o \in Orchs |-> <<>>]
    /\ sem = [o \in Orchs |-> SemaphoreSize]
    /\ log = [o \in Orchs |-> <<>>]
    /\ reqs = [p \in Procs |-> <<>>]

\* no function is being called and no context directory exists
InitIdle ==
    /\ fn = "none"
    /\ arg = None
    /\ res = None
    /\ fpc = "off"
    /\ fs = NoDirectory

\* no video process runs
InitNoRun ==
    /\ run = [r \in Runners |-> NoRun]
    /\ rec = {}
    /\ rel = [count |-> 0, assets |-> {}]

Init ==
    /\ InitCap \/ InitRace \/ InitLib
    /\ InitOrch
    /\ InitIdle
    /\ InitNoRun

Next ==
    \/ \E o \in Orchs : FetchPage(o)
    \/ LibFetchPage
    \/ \E o \in Orchs : LoopExit(o)
    \/ \E o \in Orchs : LoopSkip(o)
    \/ \E o \in Orchs : LockGet(o)
    \/ \E o \in Orchs : LockPatch(o)
    \/ \E o \in Orchs : \E k \in Sessions(o) : StartSession(o, k)
    \/ \E o \in Orchs : \E k \in Sessions(o) : CommentSend(o, k)
    \/ \E o \in Orchs : \E k \in Sessions(o) : CommentDone(o, k)
    \/ \E o \in Orchs : GatherDone(o)
    \/ \E o \in Orchs : \E k \in Sessions(o) : KillOrphan(o, k)
    \/ \E o \in Orchs : \E k \in Sessions(o) : RunnerAgent(o, k)
    \/ \E o \in Orchs : \E k \in Sessions(o) : RunnerVideo(o, k)
    \/ \E o \in Orchs : \E k \in Sessions(o) : RunnerGet(o, k)
    \/ \E o \in Orchs : \E k \in Sessions(o) : RunnerPatch(o, k)

Spec == Init /\ [][Next]_vars

\* one call of one function, drawn from `calls`, with no poll cycle running
InitCall(calls) ==
    /\ board = CapBoard
    /\ opc = [p \in Procs |-> "off"]
    /\ InitOrch
    /\ \E c \in calls : fn = c.fn /\ arg = c.arg
    /\ res = None
    /\ fpc = "call"
    /\ fs = NoDirectory
    /\ InitNoRun

\* the tagged-comment selector, called with every comment list
InitTagged == InitCall({[fn |-> "tagged", arg |-> c] : c \in CommentLists})

NextTagged == CallTagged

SpecTagged == InitTagged /\ [][NextTagged]_vars

\* the annotation parser, called with every annotated task description
InitParse == InitCall({[fn |-> "parse", arg |-> t] : t \in AnnotatedTasks})

NextParse == CallParse

SpecParse == InitParse /\ [][NextParse]_vars

\* the file name computation, called with every feature name
InitSlug == InitCall({[fn |-> "slug", arg |-> f] : f \in FeatureNames})

NextSlug == CallSlug

SpecSlug == InitSlug /\ [][NextSlug]_vars

\* the context directory before any call: missing, empty, or holding files
CtxDirectories ==
    {d \in [dir : BOOLEAN,
            files : [FileNames -> {NoFile} \cup {File(c) : c \in OldContents}]] :
        (\E f \in FileNames : d.files[f].exists) => d.dir}

\* one call of the context updater or the context loader on a context
\* directory in any of the states it can be found in
InitCtx ==
    /\ board = CapBoard
    /\ opc = [p \in Procs |-> "off"]
    /\ InitOrch
    /\ fn = "none"
    /\ arg = None
    /\ res = None
    /\ fpc = "off"
    /\ fs \in CtxDirectories
    /\ InitNoRun

NextCtx ==
    \/ ProcessTask
    \/ UpdateFile
    \/ LoadContext

SpecCtx == InitCtx /\ [][NextCtx]_vars

\* the final-result extraction, applied to every child output
InitFinal == InitCall({[fn |-> "final", arg |-> o] : o \in ChildOutputs})

NextFinal == CallFinal

SpecFinal == InitFinal /\ [][NextFinal]_vars

\* a Runner with every agent log and every end of its video upload, and the
\* session that reads its output
InitVideo ==
    InitCall({[fn |-> "video", arg |-> [log |-> l, upload |-> u]] :
                 l \in AgentLogs, u \in Uploads})

NextVideo ==
    \/ RunnerExits
    \/ SessionBuildsComment

SpecVideo == InitVideo /\ [][NextVideo]_vars

\* the module imported under every process environment and .env file
InitImport ==
    InitCall({[fn |-> "import", arg |-> [environ |-> e, file |-> f]] :
                 e \in ProcessEnvs, f \in DotenvFiles})

NextImport ==
    \/ ImportLoadsDotenv
    \/ ImportReadsEnviron

SpecImport == InitImport /\ [][NextImport]_vars

\* the recordings directory and the release before the processes start: the
\* directory empty or holding an earlier run's file, the release of the
\* tag missing or already there
InitShared ==
    /\ rec \in {{}, {StaleVideo}}
    /\ rel \in {[count |-> c, assets |-> {}] : c \in {0, 1}}

\* Runner child processes side by side in an empty recordings directory,
\* the release of the tag not yet created; each was started by a session
\* that has put the lock label on its issue, the first one possibly by hand
\* with no issue number
InitRunners ==
    /\ \E by_hand \in BOOLEAN :
         /\ run = [r \in Runners |->
                     [NoRun EXCEPT !.impl = "runner", !.pc = "agent",
                                   !.issue = IF r = 1 /\ by_hand THEN None
                                             ELSE IssueOf(r)]]
         /\ labels = [n \in Issues |->
                        IF \E r \in Runners :
                              IssueOf(r) = n /\ ~(r = 1 /\ by_hand)
                        THEN InitLabels[n] \cup {"testing-in-progress"}
                        ELSE InitLabels[n]]
    /\ rec = {}
    /\ rel = [count |-> 0, assets |-> {}]

\* one call of process_and_upload_video of bernard/video.py
InitWorkflow ==
    /\ run = [r \in Runners |->
                IF r = 1 THEN [NoRun EXCEPT !.impl = "library", !.pc = "finalize"]
                ELSE NoRun]
    /\ labels = InitLabels
    /\ InitShared

InitPipeline ==
    /\ InitRunners \/ InitWorkflow
    /\ board = CapBoard
    /\ opc = [p \in Procs |-> "off"]
    /\ posted = {}
    /\ after = [p \in Procs |-> None]
    /\ issues = [p \in Procs |-> <<>>]
    /\ idx = [o \in Orchs |-> 1]
    /\ got = [o \in Orchs |-> {}]
    /\ tasks = [o \in Orchs |-> <<>>]
    /\ sem = [o \in Orchs |-> SemaphoreSize]
    /\ log = [o \in Orchs |-> <<>>]
    /\ reqs = [p \in Procs |-> <<>>]
    /\ InitIdle

NextPipeline ==
    \/ \E r \in Runners : AgentReturns(r)
    \/ \E r \in Runners : Finalize(r)
    \/ \E r \in Runners : FindLatest(r)
    \/ \E r \in Runners : ReleaseGet(r)
    \/ \E r \in Runners : ReleaseCreate(r)
    \/ \E r \in Runners : Upload(r)
    \/ \E r \in Runners : UpdateGet(r)
    \/ \E r \in Runners : UpdatePatch(r)
    \/ \E r \in Runners : SessionComments(r)

SpecPipeline == InitPipeline /\ [][NextPipeline]_vars

\* a Runner started with every argument list on every comment list
InitPrompt == InitCall({[fn |-> "prompt", arg |-> a] : a \in PromptArgs})

NextPrompt == BuildPrompt

SpecPrompt == InitPrompt /\ [][NextPrompt]_vars

\* ------------------------------------------------------------------------
\* Properties
\* ------------------------------------------------------------------------

\* the child process of a session is running
ChildInFlight(t) == t.r \in {"agent", "video", "upd_get", "upd_patch"}

\* a Runner child process was spawned for the session
ChildSpawned(t) == t.r # "none"

\* the sessions of o whose child has been spawned for issue n
LaunchedFor(o, n) ==
    {k \in Sessions(o) : tasks[o][k].number = n /\ ChildSpawned(tasks[o][k])}

\* C1: in one poll cycle at most 3 Runner child processes are in flight at
\* any instant, at most 3 sessions are launched in total, and no session
\* that gather has scheduled finds the semaphore without a free permit
C1_AtMostThreeInFlight ==
    \A o \in Orchs :
        /\ Cardinality({k \in Sessions(o) : ChildInFlight(tasks[o][k])}) <= 3
        /\ Len(tasks[o]) <= 3
        /\ ~(\E k \in Sessions(o) :
                opc[o] = "gather" /\ tasks[o][k].st = "created" /\ sem[o] = 0)

\* three children in flight at once while eligible entries remain unvisited
C1_Witness ==
    \E o \in Orchs :
        /\ Cardinality({k \in Sessions(o) : ChildInFlight(tasks[o][k])}) = 3
        /\ Cardinality({e \in idx[o]..Len(issues[o]) :
                           SkipReason(issues[o][e]) = "none"}) >= 2

\* C2: no session exists for an entry whose fetched labels include
\* ai-tested in any letter case, nor for an entry none of whose comments
\* contains "@<bot> Testing Instructions:"
C2_IneligibleNeverLaunched ==
    \A o \in Orchs : \A k \in Sessions(o) :
        LET issue == issues[o][tasks[o][k].entry] IN
        /\ issue.labels \cap {"ai-tested", "AI-Tested", "AI-TESTED"} = {}
        /\ \E i \in 1..Len(issue.comments) :
              Contains(issue.comments[i].body, Prefix)

\* a cycle that launched a session after skipping an AI-Tested entry and an
\* entry whose body, but no comment, holds the instructions
C2_Witness ==
    \E o \in Orchs :
        /\ \E k \in Sessions(o) : ChildSpawned(tasks[o][k])
        /\ \E i \in 1..Len(log[o]) :
              /\ log[o][i].what = "ai-tested"
              /\ "AI-Tested" \in issues[o][log[o][i].entry].labels
        /\ \E i \in 1..Len(log[o]) :
              /\ log[o][i].what = "no-instructions"
              /\ Contains(issues[o][log[o][i].entry].body, Prefix)

\* C3: within one poll cycle at most one Runner is launched and at most one
\* comment is posted per issue number
C3_OncePerIssuePerCycle ==
    \A o \in Orchs : \A n \in Issues :
        /\ Cardinality(LaunchedFor(o, n)) <= 1
        /\ Cardinality({c \in posted : c.by = o /\ c.number = n}) <= 1

\* C4: two invocations never both launch a Runner for the same issue
C4_LockExcludes ==
    \A n \in Issues :
        Cardinality({o \in Orchs : LaunchedFor(o, n) # {}}) <= 1

RunnerUpdates(o, k) ==
    /\ k \in Sessions(o)
    /\ ~tasks[o][k].updated
    /\ tasks'[o][k].updated

\* C6 as stated: once an issue carries testing-in-progress, every step of
\* the system leaves the label on it
C6_LockNeverRemoved ==
    [][\A n \in Issues :
          "testing-in-progress" \in labels[n] => "testing-in-progress" \in labels'[n]]_vars

\* C6 amended: a step removes testing-in-progress from an issue only if it
\* is the successful label PATCH of a Runner for that issue, and that PATCH
\* leaves ai-tested on the issue
C6_LockRemovedOnlyByRunnerUpdate ==
    [][\A n \in Issues :
          ("testing-in-progress" \in labels[n] /\ "testing-in-progress" \notin labels'[n])
             => /\ "ai-tested" \in labels'[n]
                /\ \E o \in Orchs : \E k \in Sessions(o) :
                      tasks[o][k].number = n /\ RunnerUpdates(o, k)]_vars

\* a Runner's update has taken the lock off an issue the Orchestrator locked
C6_Witness ==
    \E o \in Orchs : \E k \in Sessions(o) :
        /\ tasks[o][k].updated
        /\ log[o][tasks[o][k].entry].what = "label-added"
        /\ "testing-in-progress" \in tasks[o][k].rgot
        /\ "testing-in-progress" \notin labels[tasks[o][k].number]

\* C7: once an issue carries ai-tested, every step of the system leaves the
\* label on it
C7_AiTestedNeverRemoved ==
    [][\A n \in Issues : "ai-tested" \in labels[n] => "ai-tested" \in labels'[n]]_vars

\* C8 as stated: the Runner's update leaves the previous label set without
\* needs-test, changes-requested and testing-in-progress, with ai-tested
C8_UpdateRemovesNeedsTest ==
    [][\A o \in Orchs : \A k \in Sessions(o) :
          RunnerUpdates(o, k) =>
             LET n == tasks[o][k].number IN
             \A l \in labels[n] \cup labels'[n] \cup {"ai-tested"} :
                l \in labels'[n] <=>
                   \/ l = "ai-tested"
                   \/ /\ l \in labels[n]
                      /\ l \notin {"needs-test", "changes-requested",
                                   "testing-in-progress"}]_vars

\* C8 amended: the Runner's update leaves the label set its GET read without
\* changes-requested and testing-in-progress and with ai-tested; needs-test
\* and every other label stay; on a set that already has that form the
\* update changes nothing
C8_UpdateKeepsNeedsTest ==
    [][\A o \in Orchs : \A k \in Sessions(o) :
          RunnerUpdates(o, k) =>
             LET n == tasks[o][k].number
                 read == tasks[o][k].rgot IN
             /\ \A l \in read \cup labels'[n] \cup {"ai-tested"} :
                   l \in labels'[n] <=>
                      \/ l = "ai-tested"
                      \/ /\ l \in read
                         /\ l \notin {"changes-requested", "testing-in-progress"}
             /\ ("ai-tested" \in read
                 /\ read \cap {"changes-requested", "testing-in-progress"} = {})
                   => labels'[n] = read]_vars

\* a Runner has updated an issue that carried needs-test, changes-requested
\* and the lock; needs-test is still there
C8_Witness ==
    \E o \in Orchs : \E k \in Sessions(o) :
        /\ tasks[o][k].updated
        /\ {"needs-test", "changes-requested", "testing-in-progress"}
              \subseteq tasks[o][k].rgot
        /\ labels[tasks[o][k].number] =
              (tasks[o][k].rgot \ {"changes-requested", "testing-in-progress"})
                 \cup {"ai-tested"}
        /\ "needs-test" \in labels[tasks[o][k].number]

\* C9: a session sends its comment, and a comment is on GitHub, only after
\* that session's own child has exited; an invocation has at most one
\* comment request in progress
C9_CommentAfterOwnExit ==
    \A o \in Orchs :
        /\ \A k \in Sessions(o) :
              tasks[o][k].st \in {"posting", "done", "failed"}
                 => tasks[o][k].r = "exited"
        /\ \A c \in posted : c.by = o => tasks[o][c.session].r = "exited"
        /\ Cardinality({k \in Sessions(o) : tasks[o][k].st = "posting"}) <= 1

\* one session is posting its comment while the child of another session of
\* the same cycle is still running and a third has already been commented
C9_Witness ==
    \E o \in Orchs : \E i, j, k \in Sessions(o) :
        /\ tasks[o][i].st = "posting"
        /\ ChildInFlight(tasks[o][j])
        /\ tasks[o][k].st = "done"
        /\ \E c \in posted : c.by = o /\ c.session = k

\* C10: the project-issues fetch never raises, whichever request fails
C10_FetchNeverRaises == \A p \in Procs : opc[p] # "raised"

\* the comment at position i mentions the bot and was created strictly after
\* every comment the bot wrote
C11_Qualifies(c, i) ==
    /\ Contains(c[i].body, Mention)
    /\ \A j \in 1..Len(c) :
         c[j].author = BOT_USERNAME => c[i].createdAt > c[j].createdAt

\* C11: the selector returns the body of the earliest comment that mentions
\* the bot and was created strictly after the last comment the bot wrote (of
\* any mention when the bot wrote none), and nothing when no comment
\* qualifies
C11_EarliestMentionAfterLastBot ==
    (fn = "tagged" /\ fpc = "ret") =>
        LET q == {i \in 1..Len(arg) : C11_Qualifies(arg, i)}
        IN  IF q = {} THEN ~res.found
            ELSE /\ res.found
                 /\ \E i \in q :
                      /\ res.body = arg[i].body
                      /\ \A j \in q : arg[i].createdAt <= arg[j].createdAt

\* the call [bot@1, mention@2, bot@3, mention@4] returned the body of the
\* fourth comment
C11_Witness ==
    /\ fn = "tagged"
    /\ fpc = "ret"
    /\ arg = << CommentAt(1, BOT_USERNAME, FALSE, 1), CommentAt(2, "dev", TRUE, 2),
                CommentAt(3, BOT_USERNAME, FALSE, 3), CommentAt(4, "dev", TRUE, 4) >>
    /\ res = Found(<<"@bot", " ", "c4">>)

\* the parentheses of a text are balanced up to its first n tokens: no ")"
\* without an earlier "(" to close
RECURSIVE C12_Depth(_, _)
C12_Depth(s, n) ==
    IF n = 0 THEN 0
    ELSE C12_Depth(s, n - 1)
           + (IF s[n] = "(" THEN 1 ELSE IF s[n] = ")" THEN 0 - 1 ELSE 0)

C12_NoUnmatched(s) ==
    /\ C12_Depth(s, Len(s)) = 0
    /\ \A n \in 0..Len(s) : C12_Depth(s, n) >= 0

\* C12: for any feature and any information text without
\* unmatched parentheses, parsing 'REMEMBER NEXT TIME FOR <feature> (<info>)'
\* returns the trimmed feature and information text, of the first annotation
\* when there are several
C12_RoundTripBalanced ==
    (fn = "parse" /\ fpc = "ret" /\ C12_NoUnmatched(arg.info)) =>
        res = Parsed(Strip(arg.feature), Strip(arg.info))

\* a text of lower-case words and single hyphens that neither starts nor
\* ends with a hyphen
C13_IsSlug(s) ==
    /\ \A i \in 1..Len(s) : s[i] = "-" \/ (s[i] \in Words /\ LowerWord(s[i]) = s[i])
    /\ \A i \in 1..(Len(s) - 1) : ~(s[i] = "-" /\ s[i + 1] = "-")
    /\ s # <<>> => (s[1] # "-" /\ s[Len(s)] # "-")

\* C13: the file name computed for a feature consists of lower-case word
\* characters and single hyphens only, has no leading or trailing hyphen, is
\* its own file name (idempotence), and is the expected one for the five
\* names of the sanitization table
C13_SlugWellFormed ==
    (fn = "slug" /\ fpc = "ret") =>
        /\ C13_IsSlug(res)
        /\ safe_feature_name(res) = res
        /\ arg = <<"User", " ", "Management">> => res = <<"user", "-", "management">>
        /\ arg = <<"billing", "/", "payment">> => res = <<"billing", "-", "payment">>
        /\ arg = <<"API", " ", "&", " ", "Authentication">>
             => res = <<"api", "-", "authentication">>
        /\ arg = <<"file", "-", "upload", " ", "feature", "!">>
             => res = <<"file", "-", "upload", "-", "feature">>
        /\ arg = <<" ", " ", " ", "spaced", " ", " ", " ">> => res = <<"spaced">>

\* the file name of 'API & Authentication' was computed: a run of three
\* replaced characters became one hyphen
C13_Witness ==
    /\ fn = "slug"
    /\ fpc = "ret"
    /\ arg = <<"API", " ", "&", " ", "Authentication">>
    /\ res = <<"api", "-", "authentication">>

\* C14: a call of process_task_for_context_updates never raises; without an
\* annotation it returns nothing and changes nothing; with an annotation and
\* the LLM key missing or the generation failing it returns nothing, creates
\* no file or directory and leaves every existing file as it was
C14_ProcessNeverRaises ==
    [][fn' = "process" =>
         /\ ~res'.raised
         /\ (\A i \in 1..Len(arg'.task) : arg'.task[i] \notin Keyword)
              => (res'.path = NoPath /\ fs' = fs /\ ~res'.gen.called)
         /\ (arg'.key # "set" \/ arg'.llm = LlmFails)
              => (res'.path = NoPath /\ fs' = fs)]_vars

\* an annotated task was processed without an LLM key while the feature's
\* file existed: generation was reached and raised, nothing was returned
C14_Witness ==
    /\ fn = "process"
    /\ arg.key = "absent"
    /\ \E i \in 1..Len(arg.task) : arg.task[i] \in Keyword
    /\ res.gen.called
    /\ res.stage = "generate"
    /\ res.path = NoPath
    /\ fs.files[<<"billing">>].exists

\* C15: after a call of update_context_file that succeeded, <slug>.txt
\* exists and holds exactly the generated text, the path returned is that
\* file, and generation was given the file's previous content, trimmed, if
\* the file existed before the call and no existing content otherwise; and
\* no call of any operation makes an existing context file disappear
C15_UpdateOverwrites ==
    [][/\ (fn' = "update" /\ ~res'.raised) =>
            LET name == safe_feature_name(arg'.feature)
            IN  /\ fs'.dir
                /\ fs'.files[name] = File(Strip(arg'.llm))
                /\ res'.path = PathOf(name)
                /\ res'.gen.called
                /\ res'.gen.received =
                       IF FileExists(fs, name)
                       THEN Given(Strip(fs.files[name].content))
                       ELSE NotGiven
       /\ \A f \in FileNames : fs.files[f].exists => fs'.files[f].exists]_vars

\* billing.txt held " old\n"; an update was given "old" as existing content
\* and the file now holds the generated "new1" alone
C15_Witness ==
    /\ fn = "update"
    /\ ~res.raised
    /\ arg.feature = <<"Billing">>
    /\ res.gen.received = Given(<<"old">>)
    /\ res.path = PathOf(<<"billing">>)
    /\ fs.files[<<"billing">>] = File(<<"new1">>)

\* the file of the label at position i, if it exists, then air-employee.txt
\* if the label is 1094/1095 and that file exists
C16_Piece(i) ==
    (IF arg[i] \in FileNames /\ fs.files[arg[i]].exists
     THEN <<fs.files[arg[i]].content>> ELSE <<>>)
      \o (IF arg[i] = AirLabel /\ fs.files[AirFile].exists
          THEN <<fs.files[AirFile].content>> ELSE <<>>)

\* the pieces of the first n labels
RECURSIVE C16_Pieces(_)
C16_Pieces(n) == IF n = 0 THEN <<>> ELSE C16_Pieces(n - 1) \o C16_Piece(n)

\* the first n of the pieces, each followed by a blank line but the last
RECURSIVE C16_Joined(_, _)
C16_Joined(pieces, n) ==
    IF n = 0 THEN <<>>
    ELSE C16_Joined(pieces, n - 1)
           \o (IF n > 1 THEN BlankLine ELSE <<>>) \o pieces[n]

\* C16: the loader returns the contents of the existing <label>.txt files in
\* label order, air-employee.txt (when it exists) in the place of label
\* 1094/1095 after that label's own file, joined by blank lines, and the
\* empty text when no label has a file
C16_LoadJoinsInOrder ==
    (fn = "load" /\ fpc = "ret") =>
        LET pieces == C16_Pieces(Len(arg))
        IN  /\ res = C16_Joined(pieces, Len(pieces))
            /\ pieces = <<>> => res = <<>>
            /\ (/\ \E i \in 1..Len(arg) : arg[i] = AirLabel
                /\ fs.files[AirFile].exists
                /\ fs.files[AirFile].content # <<>>)
                 => Contains(res, fs.files[AirFile].content)

\* labels [1094/1095, billing] were loaded where billing.txt and
\* air-employee.txt exist and 1094/1095.txt does not
C16_Witness ==
    /\ fn = "load"
    /\ fpc = "ret"
    /\ arg = <<AirLabel, <<"billing">>>>
    /\ ~fs.files[AirLabel].exists
    /\ fs.files[AirFile] = File(<<" ", "old", "\n">>)
    /\ fs.files[<<"billing">>] = File(<<" ", "old", "\n">>)
    /\ res = <<" ", "old", "\n", "\n", "\n", " ", "old", "\n">>

\* the text after the first marker up to the first level word, bracketed or
\* not, or the end of the output
C17_Section(out) ==
    LET s == CHOOSE k \in 1..Len(out) :
                 out[k] = ResultMarker /\ \A j \in 1..(k - 1) : out[j] # ResultMarker
        stop(k) == \/ out[k] \in LevelWords
                   \/ k < Len(out) /\ out[k] = "[" /\ out[k + 1] \in LevelWords
        ends == {k \in (s + 1)..Len(out) : stop(k)}
    IN  SubSeq(out, s + 1,
               IF ends = {} THEN Len(out)
               ELSE (CHOOSE k \in ends : \A j \in ends : k <= j) - 1)

\* where the line that holds position i begins
C17_LineOf(s, i) ==
    CHOOSE j \in 1..i :
        /\ j = 1 \/ s[j - 1] = "\n"
        /\ \A k \in j..(i - 1) : s[k] # "\n"

\* the line that begins at position j is a log-level line (a level word in
\* any case, optionally bracketed and indented) or the recordings hint
C17_Dropped(s, j) ==
    \/ s[j] = CheckHint
    \/ \E k \in j..Len(s) :
         /\ s[k] \in LevelWordsAnyCase
         /\ \A m \in j..(k - 1) : s[m] = " " \/ (m = j /\ s[m] = "[")

\* the first n tokens of s without the tokens of dropped lines
RECURSIVE C17_Kept(_, _)
C17_Kept(s, n) ==
    IF n = 0 THEN <<>>
    ELSE C17_Kept(s, n - 1)
           \o (IF s[n] # "\n" /\ C17_Dropped(s, C17_LineOf(s, n))
               THEN <<>> ELSE <<s[n]>>)

\* C17: the extraction returns "No final result found." exactly when the
\* output holds no "Final Result:" marker; otherwise the text after the first
\* marker up to the first level word or the end, without colour sequences,
\* without its log-level lines and recordings-hint line, with runs of
\* newlines collapsed, trimmed
C17_FinalResultAsDescribed ==
    (fn = "final" /\ fpc = "ret") =>
        LET marked == \E k \in 1..Len(arg) : arg[k] = ResultMarker
            plain == RemoveAnsi(C17_Section(arg))
        IN  /\ res = NoFinalResult <=> ~marked
            /\ marked => res = Strip(CollapseNewlines(C17_Kept(plain, Len(plain))))

\* C18: a URL the Runner printed as 'VIDEO_URL::<url>' is the URL the session
\* extracts from the captured output; without a marker in the output the
\* extraction finds nothing; and the comment holds a video link exactly when
\* a URL was extracted
C18_VideoUrlRoundTrip ==
    (fn = "video" /\ fpc = "ret") =>
        /\ arg.upload.kind = "uploaded" => res.video_url = Found(arg.upload.url)
        /\ (\A i \in 1..Len(res.output) : res.output[i] # VideoMarker)
             => res.video_url = NotFound
        /\ (\E i \in 1..Len(res.comment) : res.comment[i] = VideoLinkText)
             <=> res.video_url.found
        /\ res.video_url.found
             => Contains(res.comment,
                         <<VideoLinkText>> \o res.video_url.body \o <<")">>)

\* an upload to 'http://u/' after two lines of agent log: the URL was
\* extracted whole and linked in the comment
C18_Witness ==
    /\ fn = "video"
    /\ fpc = "ret"
    /\ arg.log = <<"txt", "\n">>
    /\ arg.upload.url = <<"http://", "u", "/">>
    /\ res.video_url = Found(<<"http://", "u", "/">>)
    /\ Contains(res.comment, <<VideoLinkText, "http://", "u", "/", ")">>)

\* C19: importing the module raises a missing-key error if one of the three
\* variables is absent from the environment the module reads (the process
\* environment, completed by load_dotenv() with the variables only the .env
\* file defines); otherwise the three module values are that environment's
\* values, empty ones included, and never a default
C19_LoadFailsOnMissingKey ==
    (fn = "import" /\ fpc = "ret") =>
        /\ \A k \in EnvKeySet :
             /\ k \in DOMAIN arg.environ
                  => (k \in DOMAIN res.environ /\ res.environ[k] = arg.environ[k])
             /\ (k \notin DOMAIN arg.environ /\ k \notin DOMAIN arg.file)
                  => k \notin DOMAIN res.environ
        /\ (\E k \in EnvKeySet : k \notin DOMAIN res.environ)
             => (res.module.raised /\ res.module.key \notin DOMAIN res.environ)
        /\ (\A k \in EnvKeySet : k \in DOMAIN res.environ)
             => /\ ~res.module.raised
                /\ \A i \in 1..Len(EnvKeys) :
                     res.module.values[i] = res.environ[EnvKeys[i]]

\* the import raised for GITHUB_TOKEN, set neither in the environment nor in
\* the .env file, the two other variables being set
C19_Witness ==
    /\ fn = "import"
    /\ fpc = "ret"
    /\ DOMAIN arg.environ = {"PROJECT_UNIQUE_ID", "COLUMN_ID"}
    /\ DOMAIN arg.file = {}
    /\ res.module.raised
    /\ res.module.key = "GITHUB_TOKEN"

\* C20: when an Orchestrator invocation has ended, by gather returning or by
\* an exception leaving main(), and every child process it launched has
\* exited, a comment post has been made for every issue whose child it
\* launched: the comment is on the issue, or the session's own post was made
\* and failed; one session's failed comment post does not keep the other
\* launched sessions from being commented
C20_CycleEndsAfterAllCommented ==
    \A o \in Orchs :
        (/\ opc[o] \in {"done", "crashed"}
         /\ \A j \in Sessions(o) : ~ChildInFlight(tasks[o][j])) =>
            \A k \in Sessions(o) :
                ChildSpawned(tasks[o][k]) =>
                    \/ tasks[o][k].st = "failed"
                    \/ \E c \in posted : c.by = o /\ c.session = k

\* the Runner of the session has ended without performing its label update
C21_EndedWithoutUpdate(t) == t.r \in {"exited", "killed"} /\ ~t.updated

\* C21: an issue whose Runner ended without performing its label update
\* carries testing-in-progress and not ai-tested; no invocation launches a
\* Runner for an issue it fetched with testing-in-progress on it; and once
\* the invocation has ended, that cycle's comment post has been made for the
\* issue
C21_FailedRunnerKeepsLock ==
    \A o \in Orchs : \A k \in Sessions(o) :
        /\ ~HasLabelLower(issues[o][tasks[o][k].entry].labels, "testing-in-progress")
        /\ C21_EndedWithoutUpdate(tasks[o][k]) =>
              /\ "testing-in-progress" \in labels[tasks[o][k].number]
              /\ ~HasLabelLower(labels[tasks[o][k].number], "ai-tested")
              /\ opc[o] \in {"done", "crashed"} =>
                    tasks[o][k].st \in {"done", "failed"}

\* the labels of issue n when the video processes started
C22_LabelsBefore(n) ==
    IF \E r \in Runners : run[r].issue = n
    THEN InitLabels[n] \cup {"testing-in-progress"}
    ELSE InitLabels[n]

\* the requests of process r that read or write issue labels
C22_LabelRequests(r) ==
    {i \in 1..Len(run[r].requests) :
        run[r].requests[i] \in {"labels_get", "labels_patch"}}

\* C22: a Runner finalizes the recording, looks for a file or contacts GitHub
\* only after agent.run has returned; it makes a label request only if it
\* was given an issue number, obtained a video URL and has printed the
\* VIDEO_URL:: line, and only after every request of the upload; and an
\* issue's labels are changed only by such a Runner's PATCH
C22_LabelsOnlyAfterMarker ==
    /\ \A r \in Runners :
          run[r].impl = "runner" =>
             /\ ((\E f \in rec : f.by = r) \/ run[r].latest # NoVideo
                   \/ run[r].requests # <<>>) => run[r].agent = "returned"
             /\ C22_LabelRequests(r) # {} =>
                   /\ run[r].issue # None
                   /\ run[r].url # NoVideo
                   /\ run[r].marker
                   /\ \A i \in C22_LabelRequests(r) :
                         \E j \in 1..(i - 1) : run[r].requests[j] = "upload"
    /\ \A n \in Issues :
          labels[n] # C22_LabelsBefore(n) =>
             \E r \in Runners :
                /\ run[r].issue = n
                /\ run[r].marker
                /\ \E i \in C22_LabelRequests(r) : run[r].requests[i] = "labels_patch"

\* a Runner given an issue number has printed the marker and changed the
\* labels of its issue, next to a Runner that ended with no upload and made
\* no label request
C22_Witness ==
    \E r, q \in Runners :
        /\ run[r].impl = "runner" /\ run[r].marker /\ run[r].pc = "end"
        /\ run[r].issue # None
        /\ labels[run[r].issue] # C22_LabelsBefore(run[r].issue)
        /\ run[q].impl = "runner" /\ run[q].pc = "end" /\ ~run[q].marker
        /\ run[q].agent = "returned"

\* C23: a call of the upload workflow of bernard/video.py returns; it
\* returns a URL exactly when it has printed the VIDEO_URL:: line; it returns
\* absent without a request to GitHub when it found no .mp4 file, which
\* happens only when the directory is empty, whatever became of the
\* recorder's finalization; and it returns absent without an upload request
\* when get-or-create-release failed
C23_WorkflowUrlIffMarker ==
    \A r \in Runners :
        run[r].impl = "library" =>
            /\ run[r].marker <=> run[r].url # NoVideo
            /\ run[r].pc = "end" =>
                  /\ run[r].out = "returned"
                  /\ run[r].latest = NoVideo =>
                        /\ rec = {}
                        /\ run[r].requests = <<>>
                        /\ run[r].url = NoVideo
            /\ run[r].release \in {"already_exists", "error"} =>
                  /\ run[r].pc = "end"
                  /\ run[r].url = NoVideo
                  /\ \A i \in 1..Len(run[r].requests) : run[r].requests[i] # "upload"

\* the workflow wrote no recording of its own (the finalization failed, or
\* there was no recorder) and has returned the URL of the file it found
C23_Witness ==
    \E r \in Runners :
        /\ run[r].impl = "library" /\ run[r].pc = "end"
        /\ ~\E f \in rec : f.by = r
        /\ run[r].marker /\ run[r].url = StaleVideo

\* C24: a get-or-create-release call that found the release by its lookup
\* made no create request, a call makes its create request only after a
\* lookup that did not answer 200, and a call whose create request failed
\* has raised the HTTP error to its caller
C24_CreateFailureRaised ==
    \A r \in Runners :
        /\ run[r].release = "found" => run[r].requests = <<"rel_get">>
             \/ SubSeq(run[r].requests, 1, 2) = <<"rel_get", "upload">>
        /\ run[r].release \in {"created", "already_exists", "error"} =>
              SubSeq(run[r].requests, 1, 2) = <<"rel_get", "rel_post">>
        /\ run[r].release \in {"already_exists", "error"} => run[r].out = "raised"

\* the prompt is the change-request prompt
C25_IsChangeRequestPrompt(p) == p # <<>> /\ p[1] = "CHANGE REQUEST"

\* the body holds a completion marker followed, before any "Full agent
\* output", by text that is not all whitespace
C25_HasResult(body) ==
    \E i \in 1..Len(body) :
        /\ body[i] \in CompleteMarkers
        /\ \A m \in 1..(i - 1) : body[m] \notin CompleteMarkers
        /\ \E k \in (i + 1)..Len(body) :
              /\ body[k] \notin Whitespace
              /\ \A m \in (i + 1)..k : body[m] # FullOutputMarker

\* the newest comment written by the bot holds a result
C25_PriorResultFound(comments) ==
    \E c \in 1..Len(comments) :
        /\ comments[c].author = BOT_USERNAME
        /\ \A j \in 1..Len(comments) :
              comments[j].author = BOT_USERNAME =>
                 \/ comments[j].createdAt < comments[c].createdAt
                 \/ comments[j].createdAt = comments[c].createdAt /\ c <= j
        /\ C25_HasResult(comments[c].body)

\* some comment holds the mention as a word of its own
C25_TaggingFound(comments) ==
    \E c \in 1..Len(comments) : \E k \in 1..Len(comments[c].body) :
        /\ comments[c].body[k] = "@bot"
        /\ k > 1 => comments[c].body[k - 1] \in {" ", "\n"}
        /\ k < Len(comments[c].body) => comments[c].body[k + 1] \in {" ", "\n"}

\* the prompt is chosen as the claim says, given which runs are
\* change-request runs
C25_PromptChoice(is_change_request) ==
    /\ C25_IsChangeRequestPrompt(res.full_task) <=>
          /\ is_change_request
          /\ C25_PriorResultFound(arg.comments)
          /\ C25_TaggingFound(arg.comments)
    /\ ~C25_IsChangeRequestPrompt(res.full_task) =>
          res.full_task = <<"directions", "\n", "\n">> \o arg.task

\* C25 as stated: a run is a change-request run exactly when an issue number
\* is present and the task text mentions the bot; the change-request prompt
\* is used exactly when, in addition, the prior test result and the tagging
\* comment were found, and the normal prompt otherwise
C25_ChangeRequestByMention ==
    (fn = "prompt" /\ fpc = "ret" /\ ~res.raised) =>
        LET by_mention == arg.issue_number # None /\ Contains(arg.task, Mention)
        IN  /\ res.is_change_request <=> by_mention
            /\ C25_PromptChoice(by_mention)

\* C25, amended: a run is a change-request run exactly when an issue number
\* is present and the label list given to the Runner holds changes-requested
\* in any letter case; the change-request prompt is used exactly when, in
\* addition, the newest comment of the bot holds a non-empty result section
\* and some comment tags the bot, and the normal prompt (preamble, blank
\* line, task text) otherwise
C25_ChangeRequestByLabel ==
    (fn = "prompt" /\ fpc = "ret" /\ ~res.raised) =>
        LET by_label ==
                /\ arg.issue_number # None
                /\ arg.label_list \cap {"changes-requested", "Changes-Requested"} # {}
        IN  /\ res.is_change_request <=> by_label
            /\ C25_PromptChoice(by_label)

\* a Runner whose task text does not mention the bot has built the
\* change-request prompt
C25_Witness ==
    /\ fn = "prompt" /\ fpc = "ret" /\ ~res.raised
    /\ C25_IsChangeRequestPrompt(res.full_task)
    /\ ~Contains(arg.task, Mention)

\* the first page of the board that reports no next page
C26_LastPage ==
    CHOOSE m \in 1..Len(board) :
        /\ ~board[m].hasNextPage
        /\ \A j \in 1..(m - 1) : board[j].hasNextPage

\* the item has linked issue content in state OPEN and a single-select
\* value equal to the configured column ID
C26_Selected(item) ==
    /\ item.content # None
    /\ IssueState(item.content) = "OPEN"
    /\ COLUMN_ID \in item.optionIds

\* the issue numbers of the selected items of pages 1..m, in page order
RECURSIVE C26_Numbers(_)
C26_Numbers(m) ==
    IF m = 0 THEN <<>>
    ELSE LET sel == SelectSeq(board[m].nodes, C26_Selected)
         IN  C26_Numbers(m - 1) \o [i \in 1..Len(sel) |-> sel[i].content]

\* C26: the first request of a fetch carries no cursor and every later one
\* the end cursor of the page before it; a fetch all of whose requests
\* succeeded has made one request per page up to the first page without a
\* next page, and its list holds exactly the selected items of those pages,
\* in page order
C26_FetchReturnsColumnIssues ==
    \A p \in Procs :
        /\ \A i \in 1..Len(reqs[p]) :
              reqs[p][i].after = IF i = 1 THEN None ELSE board[i - 1].endCursor
        /\ (/\ opc[p] \notin {"off", "fetch"}
            /\ \A i \in 1..Len(reqs[p]) : reqs[p][i].resp = "ok") =>
              /\ Len(reqs[p]) = C26_LastPage
              /\ [i \in 1..Len(issues[p]) |-> issues[p][i].number]
                    = C26_Numbers(C26_LastPage)

\* a fetch of several pages has returned several issues, none of its
\* requests having failed
C26_Witness ==
    \E p \in Procs :
        /\ opc[p] \notin {"off", "fetch"}
        /\ \A i \in 1..Len(reqs[p]) : reqs[p][i].resp = "ok"
        /\ Len(reqs[p]) > 2
        /\ Len(issues[p]) > 2

\* the fetched entry passes every eligibility filter: neither ai-tested nor
\* testing-in-progress among its fetched labels in any letter case, a
\* Testing Instructions comment, and a node id
C27_Passes(issue) ==
    /\ \A l \in issue.labels : Lower(l) \notin {"ai-tested", "testing-in-progress"}
    /\ \E i \in 1..Len(issue.comments) : Contains(issue.comments[i].body, Prefix)
    /\ issue.node_id # None

\* the loop made a label request for entry i of the list
C27_LabelRequested(o, i) ==
    \E j \in 1..Len(log[o]) :
        /\ log[o][j].entry = i
        /\ log[o][j].what \in {"label-added", "label-present", "lock-failed"}

\* the lock request of entry i returned normally
C27_LockAdded(o, i) ==
    \E j \in 1..Len(log[o]) :
        /\ log[o][j].entry = i
        /\ log[o][j].what \in {"label-added", "label-present"}

\* C27: an entry failing a filter gets no label request, no session (hence no
\* child) and no comment; the sessions are, in fetch order, exactly the
\* passing entries whose lock request succeeded, up to the third one, so a
\* skipped entry never counts toward the cap of 3
C27_SkippedHasNoEffect ==
    \A o \in Orchs :
        LET E == [k \in Sessions(o) |-> tasks[o][k].entry]
            Cut == IF Len(E) >= 3 THEN E[3] ELSE Len(issues[o])
            Over == opc[o] \in {"gather", "done", "crashed"}
        IN
        /\ Len(E) <= 3
        /\ \A k \in Sessions(o) :
              /\ k > 1 => E[k - 1] < E[k]
              /\ C27_Passes(issues[o][E[k]])
              /\ C27_LockAdded(o, E[k])
        /\ \A i \in 1..Len(issues[o]) :
              /\ ~C27_Passes(issues[o][i]) =>
                    /\ ~C27_LabelRequested(o, i)
                    /\ \A k \in Sessions(o) : E[k] # i
                    /\ \A c \in posted : c.by = o => E[c.session] # i
              /\ i > Cut => ~C27_LabelRequested(o, i)
              /\ (Over /\ i <= Cut /\ C27_Passes(issues[o][i])
                       /\ C27_LockAdded(o, i)) =>
                    \E k \in Sessions(o) : E[k] = i

\* a cycle over, three sessions launched, the third one for an entry that
\* lies behind four skipped entries and one whose lock request failed
C27_Witness ==
    \E o \in Orchs :
        /\ opc[o] = "done"
        /\ Len(tasks[o]) = 3
        /\ tasks[o][3].entry >= 8
        /\ \E i \in 1..Len(log[o]) : log[o][i].what = "lock-failed"
        /\ Cardinality({i \in 1..Len(log[o]) :
               log[o][i].what \in {"ai-tested", "in-progress",
                                   "no-instructions", "no-node-id"}}) >= 4

\* an invocation holds a session for issue n: its lock request succeeded
C28_Locked(n) ==
    \E o \in Orchs : \E k \in Sessions(o) : tasks[o][k].number = n

\* issue n carries testing-in-progress or ai-tested
C28_Marked(n) == labels[n] \cap {"testing-in-progress", "ai-tested"} # {}

\* C28: from the successful lock add on, through every label write of the
\* invocations and of the Runners, the issue carries testing-in-progress or
\* ai-tested, and every entry a fetch collects for it from then on fails the
\* eligibility filters
C28_NoEligibleWindow ==
    [][\A n \in Issues :
          /\ C28_Locked(n)' => C28_Marked(n)'
          /\ C28_Locked(n) =>
                \A p \in Procs :
                    \A i \in (Len(issues[p]) + 1)..Len(issues'[p]) :
                        issues'[p][i].number = n =>
                            ~C27_Passes(issues'[p][i])]_vars

\* while the Runner of a locked issue is still running, a later fetch of
\* another invocation has collected the issue and its loop has skipped it for
\* the testing-in-progress label
C28_Witness ==
    \E o \in Orchs : \E k \in Sessions(o) : \E p \in Orchs \ {o} :
        /\ ChildInFlight(tasks[o][k])
        /\ \E i \in 1..Len(log[p]) :
              /\ log[p][i].what = "in-progress"
              /\ issues[p][i].number = tasks[o][k].number
              /\ "testing-in-progress" \notin InitLabels[tasks[o][k].number]

\* the Runner's update has replaced the lock by ai-tested and a later fetch
\* has skipped the issue for it
C28_WitnessTested ==
    \E o \in Orchs : \E k \in Sessions(o) : \E p \in Orchs \ {o} :
        /\ tasks[o][k].updated
        /\ \E i \in 1..Len(log[p]) :
              /\ log[p][i].what = "ai-tested"
              /\ issues[p][i].number = tasks[o][k].number

\* C29: starting without a release of the tag, the release is created at
\* most once, and no Runner whose lookup was answered 404 has its create
\* request refused and ends without upload and label update
C29_ReleaseCreatedOnce ==
    /\ rel.count <= 1
    /\ \A r \in Runners :
          (run[r].impl = "runner" /\ run[r].lookup = "404") =>
              ~(/\ run[r].release = "already_exists"
                /\ run[r].out = "raised"
                /\ ~run[r].marker)

\* C30: the file a video process goes on with is the newest .mp4 file of the
\* whole recordings directory at the time of its lookup, whichever session
\* wrote it; the process uploads that file and the comment on its issue
\* links no other
C30_LatestOfWholeDirectory ==
    [][\A r \in Runners :
          /\ (run[r].pc = "find" /\ run'[r].pc # "find") =>
                IF rec = {} THEN run'[r].pc = "end" /\ run'[r].latest = NoVideo
                ELSE /\ run'[r].latest \in rec
                     /\ \A g \in rec : g.mtime <= run'[r].latest.mtime
          /\ run'[r].marker => run'[r].url = run'[r].latest
          /\ run'[r].comment.made =>
                run'[r].comment.video \in {NoVideo, run'[r].latest}]_vars

\* a Runner whose own session wrote a recording has uploaded the recording
\* written by the other Runner's session, and the comment on its issue
\* links that recording
C30_Witness ==
    \E r \in Runners : \E s \in Runners \ {r} :
        /\ run[r].impl = "runner"
        /\ \E f \in rec : f.by = r
        /\ run[r].url \in rel.assets
        /\ run[r].url.by = s
        /\ run[r].comment.made
        /\ run[r].comment.video = run[r].url

====
